---- MODULE Spec2Model ----
(***************************************************************************)
(* A model of the format negotiator (nokhwa-core/src/format_request.rs),   *)
(* the geometric descriptors (nokhwa-core/src/types.rs), the pixel         *)
(* transcoding engine (nokhwa-core/src/pixel_format.rs) and the raw codes  *)
(* of the wire formats (nokhwa-core/src/frame_format.rs and                *)
(* nokhwa-bindings-linux/src/v4l2.rs) of nokhwa.                           *)
(*                                                                         *)
(* The operations are pure functions.  Each component has its own          *)
(* specification: its initial states draw the inputs of the operation      *)
(* from bounded sets and its actions apply the operation and record the    *)
(* outcome.  A panic (abrupt termination) is an outcome like any other.    *)
(***************************************************************************)
EXTENDS Integers, Sequences, FiniteSets, TLC

VARIABLES
    overflow_checks,  \* the build: TRUE = integer overflow panics (debug), FALSE = it wraps (release)
    request,          \* negotiator: the FormatRequest (self)
    list_of_formats,  \* negotiator: the candidate list, a sequence of CameraFormat
    called,           \* negotiator: which entry point has run: "none", "sort_formats", "resolve"
    sorted,           \* negotiator: outcome of sort_formats
    resolved,         \* negotiator: outcome of resolve
    dist_self,        \* distance: the receiver Resolution
    dist_other,       \* distance: the argument Resolution
    dist_called,      \* distance: TRUE once distance_from has run
    dist_out,         \* distance: outcome of distance_from
    px_decoder,       \* transcoder: the FormatDecoder (output layout)
    px_fcc,           \* transcoder: the source FrameFormat
    px_resolution,    \* transcoder: the Resolution argument
    px_data,          \* transcoder: the source bytes
    px_dest0,         \* transcoder: the destination as the caller passed it
    px_dest,          \* transcoder: the destination now
    px_called,        \* transcoder: "none", "write_output", "write_output_buffer"
    px_out,           \* transcoder: outcome of the call
    fcc_format,       \* raw codes: the FrameFormat handed to from_frame_format
    fcc_code,         \* raw codes: the FourCC handed to into_frame_format
    fcc_called,       \* raw codes: "none", "from_frame_format", "into_frame_format"
    fcc_out,          \* raw codes: outcome of the call
    rate_path,        \* frame rate: the construction path taken, "none" before it
    rate_value,       \* frame rate: the FrameRate constructed
    rate_used,        \* frame rate: the later use made of it, "none" before it
    rate_out,         \* frame rate: outcome of that use
    ord_self,         \* ordering: the receiver Resolution
    ord_other,        \* ordering: the argument Resolution
    ord_called,       \* ordering: TRUE once cmp has run
    ord_out,          \* ordering: the Ordering returned
    query_format,     \* lists: the FrameFormat looked up
    query_lists,      \* lists: the static lists searched so far
    query_hits,       \* lists: the searched lists that contain it
    prop_controls0,   \* properties: the controls map before the call
    prop_controls,    \* properties: the controls map
    prop_control_id,  \* properties: the ControlId asked for
    prop_value,       \* properties: the ControlValue to store
    prop_called,      \* properties: TRUE once set_control_value has run
    prop_out,         \* properties: what set_control_value returned
    strm_alive,       \* stream: TRUE until the Stream is dropped
    strm_frames,      \* stream: frames waiting in the inner receiver
    strm_disconnected,\* stream: TRUE once the inner sender is gone
    strm_stops,       \* stream: the results of the inner stop() calls, in order
    strm_out,         \* stream: what the last operation returned
    rng_min,          \* range: the argument min
    rng_max,          \* range: the argument max
    rng_step,         \* range: the argument step
    rng_pc,           \* range: where min_max_range stands
    rng_counter,      \* range: the local counter
    rng_nums          \* range: the local nums, returned at the end

negotiator_vars == <<request, list_of_formats, called, sorted, resolved>>
distance_vars == <<dist_self, dist_other, dist_called, dist_out>>
pixel_vars == <<px_decoder, px_fcc, px_resolution, px_data, px_dest0, px_dest, px_called, px_out>>
fourcc_vars == <<fcc_format, fcc_code, fcc_called, fcc_out>>
rate_vars == <<rate_path, rate_value, rate_used, rate_out>>
order_vars == <<ord_self, ord_other, ord_called, ord_out>>
lists_vars == <<query_format, query_lists, query_hits>>
properties_vars == <<prop_controls0, prop_controls, prop_control_id, prop_value, prop_called, prop_out>>
stream_vars == <<strm_alive, strm_frames, strm_disconnected, strm_stops, strm_out>>
range_vars == <<rng_min, rng_max, rng_step, rng_pc, rng_counter, rng_nums>>
vars == <<overflow_checks, negotiator_vars, distance_vars, pixel_vars, fourcc_vars, rate_vars, order_vars, lists_vars, properties_vars, stream_vars, range_vars>>

----------------------------------------------------------------------------
(* Bounds of the model. *)

\* Longest candidate list handed to the negotiator.
MaxFormats == 2

\* Widest and highest frame handed to the transcoders.
MaxWidth == 4
MaxHeight == 4

----------------------------------------------------------------------------
(* u32 machine arithmetic.  A u32 is held as four base-256 digits, least   *)
(* significant first, so that 2^32 wrap-around is computed exactly.  Every  *)
(* operation returns the wrapped value and whether it overflowed.           *)

U32FromNat(n) ==
    << n % 256, (n \div 256) % 256, (n \div 65536) % 256, (n \div 16777216) % 256 >>

\* Only for values below 2^31.
U32ToNat(d) == d[1] + 256 * d[2] + 65536 * d[3] + 16777216 * d[4]

RECURSIVE SubDigits(_, _, _, _)
SubDigits(a, b, i, borrow) ==
    IF i > Len(a) THEN << >>
    ELSE LET t == a[i] - b[i] - borrow
         IN  << (t + 256) % 256 >> \o SubDigits(a, b, i + 1, IF t < 0 THEN 1 ELSE 0)

RECURSIVE LessDigits(_, _, _)
\* a < b, comparing from digit i (the most significant) downwards.
LessDigits(a, b, i) ==
    IF i = 0 THEN FALSE
    ELSE IF a[i] # b[i] THEN a[i] < b[i]
    ELSE LessDigits(a, b, i - 1)

\* u32 `-`
u32_sub(a, b) ==
    [val |-> SubDigits(a, b, 1, 0), overflow |-> LessDigits(a, b, 4)]

RECURSIVE AddDigits(_, _, _, _)
\* Digits of a + b, one more digit than the operands (the carry out).
AddDigits(a, b, i, carry) ==
    IF i > Len(a) THEN << carry >>
    ELSE LET t == a[i] + b[i] + carry
         IN  << t % 256 >> \o AddDigits(a, b, i + 1, t \div 256)

\* u32 `+`
u32_add(a, b) ==
    LET s == AddDigits(a, b, 1, 0)
    IN  [val |-> SubSeq(s, 1, 4), overflow |-> s[5] # 0]

MulTerm(a, b, i, c) ==
    IF (c + 1 - i) \in 1..Len(b) THEN a[i] * b[c + 1 - i] ELSE 0

RECURSIVE MulColumn(_, _, _, _)
\* Sum of the digit products a[i]*b[j] with i + j = c + 1, for i = from..Len(a).
MulColumn(a, b, c, from) ==
    IF from > Len(a) THEN 0
    ELSE MulTerm(a, b, from, c) + MulColumn(a, b, c, from + 1)

RECURSIVE MulDigits(_, _, _, _)
\* Digits of a * b (Len(a) + Len(b) of them), schoolbook multiplication.
MulDigits(a, b, c, carry) ==
    IF c > Len(a) + Len(b) THEN << >>
    ELSE LET t == carry + MulColumn(a, b, c, 1)
         IN  << t % 256 >> \o MulDigits(a, b, c + 1, t \div 256)

\* u32::pow(2): one multiplication base * base.
u32_pow2(a) ==
    LET p == MulDigits(a, a, 1, 0)
    IN  [val |-> SubSeq(p, 1, 4),
         overflow |-> \E i \in 5..8 : p[i] # 0]

----------------------------------------------------------------------------
(* Resolution, FrameRate, FrameFormat, CameraFormat and their orders. *)

IntCmp(a, b) == IF a < b THEN "Less" ELSE IF a = b THEN "Equal" ELSE "Greater"

Resolution_new(x, y) == [width_x |-> x, height_y |-> y]

\* an order that compares the height first
Resolution_cmp_height_first(self, other) ==
    LET cy == IntCmp(self.height_y, other.height_y)
    IN  IF cy = "Equal" THEN IntCmp(self.width_x, other.width_x) ELSE cy

\* impl Ord for Resolution: width first, then height, ascending.
Resolution_cmp(self, other) ==
    LET cx == IntCmp(self.width_x, other.width_x)
    IN  IF cx = "Less" THEN "Less"
        ELSE IF cx = "Equal" THEN IntCmp(self.height_y, other.height_y)
        ELSE "Greater"

\* The distance as the two builds compute it: (x2 - x1).pow(2) + (y2 - y1).pow(2)
\* on u32.  With overflow checks the first overflowing operation panics; without
\* them every operation wraps.
distance_from(self, other, checks) ==
    LET x1 == U32FromNat(self.width_x)
        x2 == U32FromNat(other.width_x)
        y1 == U32FromNat(self.height_y)
        y2 == U32FromNat(other.height_y)
        dx == u32_sub(x2, x1)
        dy == u32_sub(y2, y1)
        sx == u32_pow2(dx.val)
        sy == u32_pow2(dy.val)
        sum == u32_add(sx.val, sy.val)
        wrapped == dx.overflow \/ dy.overflow \/ sx.overflow \/ sy.overflow \/ sum.overflow
    IN  IF checks /\ wrapped
        THEN [panic |-> TRUE, wrapped |-> FALSE, val |-> U32FromNat(0)]
        ELSE [panic |-> FALSE, wrapped |-> wrapped, val |-> sum.val]

\* #[derive(Ord)] on the enum: variants compare by declaration order.
FrameFormatVariants ==
    << "H265", "H264", "Avc1", "H263", "Av1", "Mpeg1", "Mpeg2", "Mpeg4", "MJpeg",
       "XVid", "VP8", "VP9", "Ayuv444", "Yuyv422", "Uyvy422", "Yvyu422", "Yv12",
       "Nv12", "Nv21", "I420", "Yvu9", "Luma8", "Luma16", "Depth16", "Rgb332",
       "Rgb555", "Rgb565", "Rgb888", "RgbA8888", "ARgb8888", "Bayer8", "Bayer16" >>

FrameFormat_discriminant(f) ==
    CHOOSE i \in 1..Len(FrameFormatVariants) : FrameFormatVariants[i] = f

FrameFormat_cmp(a, b) == IntCmp(FrameFormat_discriminant(a), FrameFormat_discriminant(b))

\* FrameRate wraps a Rational32 built with new_raw: numerator and denominator as given.
FrameRate_new(numerator, denominator) == [numer |-> numerator, denom |-> denominator]

\* FrameRate::frame_rate(fps)
FrameRate_frame_rate(fps) == FrameRate_new(fps, 1)

\* #[derive(Ord)] on FrameRate: the order of the rational, by cross-multiplication
\* (denominators are positive in every state of this model).
FrameRate_cmp(a, b) == IntCmp(a.numer * b.denom, b.numer * a.denom)

Abs(n) == IF n < 0 THEN 0 - n ELSE n

RECURSIVE Gcd(_, _)
Gcd(a, b) == IF b = 0 THEN a ELSE Gcd(b, a % b)

\* impl Sub for FrameRate: the difference of the rationals, reduced, denominator positive.
FrameRate_sub(self, rhs) ==
    LET n == self.numer * rhs.denom - rhs.numer * self.denom
        d == self.denom * rhs.denom
        g == Gcd(Abs(n), Abs(d))
        s == IF d < 0 THEN 0 - 1 ELSE 1
    IN  FrameRate_new(s * (n \div g), s * (d \div g))

(* f32 values.  Every f32 of this model is a dyadic rational below 2^24, which  *)
(* f32 holds exactly, and the operations on them are exact: an f32 is held as   *)
(* the fraction n/d, d > 0.                                                    *)
F32(n, d) == [n |-> n, d |-> d]

\* FrameRate::approximate_float: numerator as f32 / denominator as f32 (always Some).
approximate_float(self) ==
    IF self.denom < 0 THEN F32(0 - self.numer, 0 - self.denom)
    ELSE F32(self.numer, self.denom)

f32_abs(a) == F32(Abs(a.n), a.d)

f32_add(a, b) == F32(a.n * b.d + b.n * a.d, a.d * b.d)

\* f32::partial_cmp (no NaN arises)
f32_partial_cmp(a, b) == IntCmp(a.n * b.d, b.n * a.d)

\* u32 as f32
u32_as_f32(v) == F32(U32ToNat(v), 1)

CameraFormat_new(resolution, format, frame_rate) ==
    [resolution |-> resolution, format |-> format, frame_rate |-> frame_rate]

\* #[derive(Ord)] on CameraFormat: lexicographic on (resolution, format, frame_rate).
CameraFormat_cmp(a, b) ==
    LET cr == Resolution_cmp(a.resolution, b.resolution)
        cf == FrameFormat_cmp(a.format, b.format)
    IN  IF cr # "Equal" THEN cr
        ELSE IF cf # "Equal" THEN cf
        ELSE FrameRate_cmp(a.frame_rate, b.frame_rate)

\* #[derive(PartialEq)]: Resolution by fields, FrameRate as rationals.
Resolution_eq(a, b) == a.width_x = b.width_x /\ a.height_y = b.height_y

FrameRate_eq(a, b) == FrameRate_cmp(a, b) = "Equal"

----------------------------------------------------------------------------
(* Range<T> (crate::ranges): an inclusive interval with a preferred point. *)

Range_new(minimum, maximum, preferred) ==
    [minimum |-> minimum, maximum |-> maximum, preferred |-> preferred]

Range_preferred(self) == self.preferred

\* Range::validate(v).is_ok() for Range<Resolution>
Range_validate_resolution(self, v) ==
    /\ Resolution_cmp(self.minimum, v) # "Greater"
    /\ Resolution_cmp(v, self.maximum) # "Greater"

\* Range::validate(v).is_ok() for Range<FrameRate>
Range_validate_frame_rate(self, v) ==
    /\ FrameRate_cmp(self.minimum, v) # "Greater"
    /\ FrameRate_cmp(v, self.maximum) # "Greater"

\* Range::validate(v) succeeds, for Range<i64> and Range<f64>
Range_validate_number(self, v) == self.minimum <= v /\ v <= self.maximum

----------------------------------------------------------------------------
(* slice::sort and slice::sort_by: stable sorts. *)

\* a sort that leaves the elements in their input order
insert_camera_format_unsorted(s, x) == Append(s, x)

\* s is sorted; x goes before the first element that compares Greater than x.
insert_camera_format(s, x) ==
    LET after == {i \in 1..Len(s) : CameraFormat_cmp(s[i], x) = "Greater"}
        p == IF after = {} THEN Len(s) + 1
             ELSE CHOOSE i \in after : \A j \in after : i <= j
    IN  SubSeq(s, 1, p - 1) \o << x >> \o SubSeq(s, p, Len(s))

RECURSIVE sort_camera_formats(_)
\* formats.sort()
sort_camera_formats(s) ==
    IF s = << >> THEN << >>
    ELSE insert_camera_format(sort_camera_formats(SubSeq(s, 1, Len(s) - 1)), s[Len(s)])

\* the comparator of distances.sort_by: a.0.partial_cmp(&b.0).unwrap_or(Equal)
distance_cmp(a, b) == f32_partial_cmp(a[1], b[1])

insert_distance(s, x) ==
    LET after == {i \in 1..Len(s) : distance_cmp(s[i], x) = "Greater"}
        p == IF after = {} THEN Len(s) + 1
             ELSE CHOOSE i \in after : \A j \in after : i <= j
    IN  SubSeq(s, 1, p - 1) \o << x >> \o SubSeq(s, p, Len(s))

RECURSIVE sort_distances(_)
\* distances.sort_by(..)
sort_distances(s) ==
    IF s = << >> THEN << >>
    ELSE insert_distance(sort_distances(SubSeq(s, 1, Len(s) - 1)), s[Len(s)])

----------------------------------------------------------------------------
(* FormatRequest (format_request.rs). *)

\* Option<T>
Some(v) == [some |-> TRUE, val |-> v]

\* the "no value" placeholders of outcomes that carry none
NoResolution == Resolution_new(0, 0)
NoFrameRate == FrameRate_new(0, 1)
NoRange(v) == Range_new(v, v, v)
NoCameraFormat == CameraFormat_new(NoResolution, "MJpeg", NoFrameRate)

None(v) == [some |-> FALSE, val |-> v]

\* a filter that lets every format through
format_allowed_unfiltered(self, x) == TRUE

\* frame_format.contains(&x.format())
format_allowed(self, x) == x.format \in self.frame_format

\* the filter closure of the Closest arm
closest_filter(self, x) == format_allowed(self, x)

\* the filter closure of the HighestFrameRate arm
highest_frame_rate_filter(self, x) ==
    format_allowed(self, x) /\ Range_validate_frame_rate(self.frame_rate, x.frame_rate)

\* the filter closure of the HighestResolution arm
highest_resolution_filter(self, x) ==
    format_allowed(self, x) /\ Range_validate_resolution(self.resolution, x.resolution)

\* the filter closure of the Exact arm
exact_filter(self, x) ==
    /\ format_allowed(self, x)
    /\ Resolution_eq(self.resolution, x.resolution)
    /\ FrameRate_eq(self.frame_rate, x.frame_rate)

\* the map closure of the Closest arm, without its distance_from call:
\* frame_rate_distance + resolution_point_distance for a resolution distance d (an f32)
closest_cost(self, fmt, d) ==
    LET frame_rate_distance ==
            IF self.frame_rate.some
            THEN f32_abs(approximate_float(
                     FrameRate_sub(fmt.frame_rate, Range_preferred(self.frame_rate.val))))
            ELSE F32(0, 1)
    IN  f32_add(frame_rate_distance, d)

\* fmt.resolution().distance_from(&res_pt), or nothing to compute without a preference
closest_resolution_distance(self, fmt, checks) ==
    IF self.resolution.some
    THEN distance_from(fmt.resolution, Range_preferred(self.resolution.val), checks)
    ELSE [panic |-> FALSE, wrapped |-> FALSE, val |-> U32FromNat(0)]

\* FormatRequest::sort_formats: [panic, val], val the returned Vec.
sort_formats(self, list, checks) ==
    IF list = << >> THEN [panic |-> FALSE, val |-> << >>]
    ELSE IF self.kind = "Closest" THEN
        LET kept == SelectSeq(list, LAMBDA x : closest_filter(self, x))
            dist == [i \in 1..Len(kept) |-> closest_resolution_distance(self, kept[i], checks)]
            distances == [i \in 1..Len(kept) |->
                            << closest_cost(self, kept[i], u32_as_f32(dist[i].val)), kept[i] >>]
            ordered == sort_distances(distances)
        IN  IF \E i \in 1..Len(kept) : dist[i].panic
            THEN [panic |-> TRUE, val |-> << >>]
            ELSE [panic |-> FALSE, val |-> [i \in 1..Len(ordered) |-> ordered[i][2]]]
    ELSE IF self.kind = "HighestFrameRate" THEN
        [panic |-> FALSE,
         val |-> sort_camera_formats(
                     SelectSeq(list, LAMBDA x : highest_frame_rate_filter(self, x)))]
    ELSE IF self.kind = "HighestResolution" THEN
        [panic |-> FALSE,
         val |-> sort_camera_formats(
                     SelectSeq(list, LAMBDA x : highest_resolution_filter(self, x)))]
    ELSE
        [panic |-> FALSE,
         val |-> sort_camera_formats(SelectSeq(list, LAMBDA x : exact_filter(self, x)))]

\* Vec::remove(0): panics on an empty Vec, else the first element.
vec_remove_first(v) ==
    IF v = << >> THEN [kind |-> "Panic", val |-> NoCameraFormat]
    ELSE [kind |-> "Some", val |-> Head(v)]

\* FormatRequest::resolve: kind "None", "Some" (with val) or "Panic".
resolve(self, list, checks) ==
    IF list = << >> THEN [kind |-> "None", val |-> NoCameraFormat]
    ELSE LET s == sort_formats(self, list, checks)
         IN  IF s.panic THEN [kind |-> "Panic", val |-> NoCameraFormat]
             ELSE vec_remove_first(s.val)

----------------------------------------------------------------------------
(* The inputs of the negotiator. *)

SampleResolutions ==
    {Resolution_new(320, 240), Resolution_new(640, 480), Resolution_new(1280, 720)}

SampleFrameRates == {FrameRate_new(15, 2), FrameRate_frame_rate(30)}

SampleFormats == {"MJpeg", "Yuyv422"}

SampleAllowed == {{"MJpeg"}, {"MJpeg", "Yuyv422"}}

SampleCameraFormats ==
    {CameraFormat_new(r, f, fr) : r \in SampleResolutions, f \in SampleFormats,
                                  fr \in SampleFrameRates}

SampleLists == UNION {[1..n -> SampleCameraFormats] : n \in 0..MaxFormats}

ResolutionRanges ==
    {Range_new(lo, hi, lo) : lo \in SampleResolutions, hi \in SampleResolutions}

FrameRateRanges ==
    {Range_new(lo, hi, lo) : lo \in SampleFrameRates, hi \in SampleFrameRates}

ClosestRequests ==
    {[kind |-> "Closest", resolution |-> r, frame_rate |-> fr, frame_format |-> ff] :
        r \in {None(NoRange(NoResolution))}
              \cup {Some(Range_new(p, p, p)) : p \in SampleResolutions},
        fr \in {None(NoRange(NoFrameRate))}
               \cup {Some(Range_new(p, p, p)) : p \in SampleFrameRates},
        ff \in SampleAllowed}

HighestFrameRateRequests ==
    {[kind |-> "HighestFrameRate", frame_rate |-> fr, frame_format |-> ff] :
        fr \in {x \in FrameRateRanges : FrameRate_cmp(x.minimum, x.maximum) # "Greater"},
        ff \in SampleAllowed}

HighestResolutionRequests ==
    {[kind |-> "HighestResolution", resolution |-> r, frame_format |-> ff] :
        r \in {x \in ResolutionRanges : Resolution_cmp(x.minimum, x.maximum) # "Greater"},
        ff \in SampleAllowed}

ExactRequests ==
    {[kind |-> "Exact", resolution |-> r, frame_rate |-> fr, frame_format |-> ff] :
        r \in SampleResolutions, fr \in SampleFrameRates, ff \in SampleAllowed}

SampleRequests ==
    ClosestRequests \cup HighestFrameRateRequests \cup HighestResolutionRequests
        \cup ExactRequests

----------------------------------------------------------------------------
(* The negotiator's specification: one call of sort_formats or of resolve on *)
(* a request and a candidate list.                                           *)

NoSorted == [panic |-> FALSE, val |-> << >>]
NoResolved == [kind |-> "None", val |-> NoCameraFormat]

DistanceIdle ==
    /\ dist_self = NoResolution
    /\ dist_other = NoResolution
    /\ dist_called = FALSE
    /\ dist_out = [panic |-> FALSE, wrapped |-> FALSE, val |-> U32FromNat(0)]

PixelIdle ==
    /\ px_decoder = "RgbFormat"
    /\ px_fcc = "GRAY"
    /\ px_resolution = NoResolution
    /\ px_data = << >>
    /\ px_dest0 = << >>
    /\ px_dest = << >>
    /\ px_called = "none"
    /\ px_out = [kind |-> "Ok", buf |-> << >>]

\* FrameFormat values of the raw-code conversions: a named variant, or Custom
\* with its eight bytes
Named(tag) == [tag |-> tag, cv |-> << >>]
Custom(cv) == [tag |-> "Custom", cv |-> cv]

NoFourccOutcome == [kind |-> "None", code |-> <<0, 0, 0, 0>>, format |-> Named("MJpeg")]

FourccIdle ==
    /\ fcc_format = Named("MJpeg")
    /\ fcc_code = <<0, 0, 0, 0>>
    /\ fcc_called = "none"
    /\ fcc_out = NoFourccOutcome

NoRateOutcome == [panic |-> FALSE]

RateIdle ==
    /\ rate_path = "none"
    /\ rate_value = NoFrameRate
    /\ rate_used = "none"
    /\ rate_out = NoRateOutcome

OrderIdle ==
    /\ ord_self = NoResolution
    /\ ord_other = NoResolution
    /\ ord_called = FALSE
    /\ ord_out = "Equal"

ListsIdle ==
    /\ query_format = Named("MJpeg")
    /\ query_lists = {}
    /\ query_hits = {}

\* ControlValuePrimitive and ControlValue: the variant and its payload
Primitive(tag, i, s, b) == [tag |-> tag, i |-> i, s |-> s, b |-> b]

ControlValue(tag, i, s, b, items, entries) ==
    [tag |-> tag, i |-> i, s |-> s, b |-> b, items |-> items, entries |-> entries]

ControlValue_Null == ControlValue("Null", 0, "", FALSE, << >>, {})

NoControls == << >>

NoSetOutcome == [kind |-> "None", error |-> ""]

PropertiesIdle ==
    /\ prop_controls0 = NoControls
    /\ prop_controls = NoControls
    /\ prop_control_id = "FocusMode"
    /\ prop_value = ControlValue_Null
    /\ prop_called = FALSE
    /\ prop_out = NoSetOutcome

NoStreamOutcome == [op |-> "new", kind |-> "None"]

StreamIdle ==
    /\ strm_alive = TRUE
    /\ strm_frames = 0
    /\ strm_disconnected = FALSE
    /\ strm_stops = << >>
    /\ strm_out = NoStreamOutcome

RangeIdle ==
    /\ rng_min = 0
    /\ rng_max = 0
    /\ rng_step = 1
    /\ rng_pc = "start"
    /\ rng_counter = 0
    /\ rng_nums = << >>

NegotiatorIdle ==
    /\ request = [kind |-> "Exact", resolution |-> NoResolution,
                  frame_rate |-> NoFrameRate, frame_format |-> {}]
    /\ list_of_formats = << >>
    /\ called = "none"
    /\ sorted = NoSorted
    /\ resolved = NoResolved

NegotiatorInit ==
    /\ overflow_checks \in BOOLEAN
    /\ RangeIdle
    /\ StreamIdle
    /\ PropertiesIdle
    /\ ListsIdle
    /\ OrderIdle
    /\ request \in SampleRequests
    /\ list_of_formats \in SampleLists
    /\ called = "none"
    /\ sorted = NoSorted
    /\ resolved = NoResolved
    /\ DistanceIdle
    /\ PixelIdle
    /\ FourccIdle
    /\ RateIdle

CallSortFormats ==
    /\ called = "none"
    /\ called' = "sort_formats"
    /\ sorted' = sort_formats(request, list_of_formats, overflow_checks)
    /\ UNCHANGED <<overflow_checks, range_vars, stream_vars, properties_vars, lists_vars, order_vars, request, list_of_formats, resolved, distance_vars, pixel_vars, fourcc_vars, rate_vars>>

CallResolve ==
    /\ called = "none"
    /\ called' = "resolve"
    /\ resolved' = resolve(request, list_of_formats, overflow_checks)
    /\ UNCHANGED <<overflow_checks, range_vars, stream_vars, properties_vars, lists_vars, order_vars, request, list_of_formats, sorted, distance_vars, pixel_vars, fourcc_vars, rate_vars>>

NegotiatorNext == CallSortFormats \/ CallResolve

NegotiatorSpec == NegotiatorInit /\ [][NegotiatorNext]_vars

----------------------------------------------------------------------------
(* The distance's specification: one call of Resolution::distance_from. *)

SampleCoordinates == {0, 1, 640, 65535, 65536, 2147483647}

SampleDistanceResolutions ==
    {Resolution_new(x, y) : x \in SampleCoordinates, y \in SampleCoordinates}

DistanceInit ==
    /\ overflow_checks \in BOOLEAN
    /\ RangeIdle
    /\ StreamIdle
    /\ PropertiesIdle
    /\ ListsIdle
    /\ OrderIdle
    /\ NegotiatorIdle
    /\ PixelIdle
    /\ FourccIdle
    /\ RateIdle
    /\ dist_self \in SampleDistanceResolutions
    /\ dist_other \in SampleDistanceResolutions
    /\ dist_called = FALSE
    /\ dist_out = [panic |-> FALSE, wrapped |-> FALSE, val |-> U32FromNat(0)]

CallDistanceFrom ==
    /\ ~dist_called
    /\ dist_called' = TRUE
    /\ dist_out' = distance_from(dist_self, dist_other, overflow_checks)
    /\ UNCHANGED <<overflow_checks, range_vars, stream_vars, properties_vars, lists_vars, order_vars, negotiator_vars, dist_self, dist_other, pixel_vars, fourcc_vars, rate_vars>>

DistanceNext == CallDistanceFrom

DistanceSpec == DistanceInit /\ [][DistanceNext]_vars

----------------------------------------------------------------------------
(* The pixel transcoders (pixel_format.rs).  Buffers are sequences of bytes; *)
(* the code's index i is position i + 1.  A conversion into a caller's        *)
(* buffer is the sequence of its stores, in program order: a store outside    *)
(* its slice, or after a read outside the source, panics and leaves the       *)
(* earlier stores in the buffer.                                              *)

Min(a, b) == IF a < b THEN a ELSE b

Fill(n, v) == [i \in 1..n |-> v]

\* one store: skipped, or panicking (ok = FALSE), or dest[idx] = val
Store(ok, idx, val) == [skip |-> FALSE, ok |-> ok, idx |-> idx, val |-> val]
NoStore == [skip |-> TRUE, ok |-> TRUE, idx |-> 0, val |-> 0]

RECURSIVE run_stores(_, _, _)
run_stores(dest, stores, k) ==
    IF k > Len(stores) THEN [kind |-> "Ok", buf |-> dest]
    ELSE LET st == stores[k]
         IN  IF st.skip THEN run_stores(dest, stores, k + 1)
             ELSE IF ~st.ok \/ st.idx >= Len(dest) THEN [kind |-> "Panic", buf |-> dest]
             ELSE run_stores([dest EXCEPT ![st.idx + 1] = st.val], stores, k + 1)

\* an average whose sum is kept in eight bits
average3_wrapping(a, b, c) == ((a + b + c) % 256) \div 3

\* ((i32::from(px[0]) + i32::from(px[1]) + i32::from(px[2])) / 3) as u8
average3(a, b, c) == (a + b + c) \div 3

\* an arm that hands the conversion to mjpeg_to_rgb, yuyv422_to_rgb, nv12_to_rgb or
\* their buf_ variants: the outcome is theirs
delegated(dest) == [kind |-> "Delegated", buf |-> dest]

Err(dest) == [kind |-> "Err", buf |-> dest]
Ok(buf) == [kind |-> "Ok", buf |-> buf]

\* a loop that keeps the channels in source order
rgb_bgra_stores_unswapped(data) ==
    [k \in 1..(3 * (Len(data) \div 4)) |->
        Store(TRUE, k - 1, data[4 * ((k - 1) \div 3) + ((k - 1) % 3) + 1])]

\* the stores of the BGRA loop of RgbFormat: dest[3 idx + c] = px[2 - c]
rgb_bgra_stores(data) ==
    [k \in 1..(3 * (Len(data) \div 4)) |->
        LET idx == (k - 1) \div 3
            c == (k - 1) % 3
        IN  Store(TRUE, k - 1, data[4 * idx + (2 - c) + 1])]

\* loops that repeat the luma byte in the alpha channel too
gray_stores_transparent(data, channels, alpha) ==
    [k \in 1..(channels * Len(data)) |-> Store(TRUE, k - 1, data[((k - 1) \div channels) + 1])]

\* the stores of the GRAY loops: `channels` bytes per pixel, the last one 255 when `alpha`
gray_stores(data, channels, alpha) ==
    [k \in 1..(channels * Len(data)) |->
        LET idx == (k - 1) \div channels
            c == (k - 1) % channels
        IN  Store(TRUE, k - 1, IF alpha /\ c = channels - 1 THEN 255 ELSE data[idx + 1])]

\* RgbFormat::write_output
RgbFormat_write_output(fcc, resolution, data) ==
    IF fcc \in {"MJPEG", "YUYV", "NV12"} THEN delegated(<< >>)
    ELSE IF fcc = "GRAY" THEN
        Ok([k \in 1..(3 * Len(data)) |-> data[((k - 1) \div 3) + 1]])
    ELSE IF fcc = "RAWRGB" THEN Ok(data)
    ELSE run_stores(Fill(Len(data), 0), rgb_bgra_stores(data), 1)

\* the arm without a length test
rgb_bgra_bad_length_unchecked(data, dest) == FALSE

\* the BGRA arm's test: dest.len() != data.len() / 4 * 3
rgb_bgra_bad_length(data, dest) == Len(dest) # (Len(data) \div 4) * 3

\* RgbFormat::write_output_buffer
RgbFormat_write_output_buffer(fcc, resolution, data, dest) ==
    IF fcc \in {"MJPEG", "YUYV", "NV12"} THEN delegated(dest)
    ELSE IF fcc = "GRAY" THEN
        IF Len(dest) # Len(data) * 3 THEN Err(dest)
        ELSE run_stores(dest, gray_stores(data, 3, FALSE), 1)
    ELSE IF fcc = "RAWRGB" THEN
        \* dest.copy_from_slice(data) panics unless the lengths are equal
        IF Len(dest) # Len(data) THEN [kind |-> "Panic", buf |-> dest]
        ELSE Ok(data)
    ELSE
        IF rgb_bgra_bad_length(data, dest) THEN Err(dest)
        ELSE run_stores(dest, rgb_bgra_stores(data), 1)

\* the stores of the RAWRGB loop of RgbAFormat: px[0], px[1], px[2], 255
rgba_rawrgb_stores(data) ==
    [k \in 1..(4 * (Len(data) \div 3)) |->
        LET idx == (k - 1) \div 4
            c == (k - 1) % 4
        IN  Store(TRUE, k - 1, IF c = 3 THEN 255 ELSE data[3 * idx + c + 1])]

\* the stores of the BGRA loop of RgbAFormat: px[2], px[1], px[0], px[3]
rgba_bgra_stores(data) ==
    [k \in 1..(4 * (Len(data) \div 4)) |->
        LET idx == (k - 1) \div 4
            c == (k - 1) % 4
        IN  Store(TRUE, k - 1, IF c = 3 THEN data[4 * idx + 4] ELSE data[4 * idx + (2 - c) + 1])]

\* RgbAFormat::write_output
RgbAFormat_write_output(fcc, resolution, data) ==
    IF fcc \in {"MJPEG", "YUYV", "NV12"} THEN delegated(<< >>)
    ELSE IF fcc = "GRAY" THEN
        run_stores(Fill(4 * Len(data), 0), gray_stores(data, 4, TRUE), 1)
    ELSE IF fcc = "RAWRGB" THEN
        run_stores(Fill(4 * (Len(data) \div 3), 0), rgba_rawrgb_stores(data), 1)
    ELSE run_stores(Fill(Len(data), 0), rgba_bgra_stores(data), 1)

\* RgbAFormat::write_output_buffer
RgbAFormat_write_output_buffer(fcc, resolution, data, dest) ==
    IF fcc \in {"MJPEG", "YUYV", "NV12"} THEN delegated(dest)
    ELSE IF fcc = "GRAY" THEN
        IF Len(dest) # Len(data) * 4 THEN Err(dest)
        ELSE run_stores(dest, gray_stores(data, 4, TRUE), 1)
    ELSE IF fcc = "RAWRGB" THEN run_stores(dest, rgba_rawrgb_stores(data), 1)
    ELSE
        IF Len(dest) # Len(data) THEN Err(dest)
        ELSE run_stores(dest, rgba_bgra_stores(data), 1)

\* LumaFormat::write_output
LumaFormat_write_output(fcc, resolution, data) ==
    IF fcc \in {"MJPEG", "YUYV", "NV12"} THEN delegated(<< >>)
    ELSE IF fcc = "GRAY" THEN Ok(data)
    ELSE IF fcc = "RAWRGB" THEN
        \* data.chunks(3): a last chunk of one or two bytes makes px[1] or px[2] panic
        IF Len(data) % 3 # 0 THEN [kind |-> "Panic", buf |-> << >>]
        ELSE Ok([i \in 1..(Len(data) \div 3) |->
                    average3(data[3 * i - 2], data[3 * i - 1], data[3 * i])])
    ELSE Ok([i \in 1..(Len(data) \div 4) |->
                average3(data[4 * i - 3], data[4 * i - 2], data[4 * i - 1])])

\* LumaFormat::write_output_buffer
LumaFormat_write_output_buffer(fcc, resolution, data, dest) ==
    IF fcc \in {"MJPEG", "YUYV", "NV12"} THEN Err(dest)
    ELSE IF fcc = "GRAY" THEN
        \* data.iter().zip(dest.iter_mut()): as many stores as the shorter of the two
        run_stores(dest, [k \in 1..Min(Len(data), Len(dest)) |-> Store(TRUE, k - 1, data[k])], 1)
    ELSE IF fcc = "RAWRGB" THEN Err(dest)
    ELSE
        run_stores(dest,
            [k \in 1..Min(Len(data) \div 4, Len(dest)) |->
                Store(TRUE, k - 1, average3(data[4 * k - 3], data[4 * k - 2], data[4 * k - 1]))], 1)

\* the stores of the BGRA loops of LumaAFormat: the average, then px[3]
lumaa_bgra_stores(data, pixels) ==
    [k \in 1..(2 * pixels) |->
        LET idx == (k - 1) \div 2
        IN  Store(TRUE, k - 1,
                  IF (k - 1) % 2 = 0
                  THEN average3(data[4 * idx + 1], data[4 * idx + 2], data[4 * idx + 3])
                  ELSE data[4 * idx + 4])]

\* LumaAFormat::write_output
LumaAFormat_write_output(fcc, resolution, data) ==
    IF fcc \in {"MJPEG", "YUYV", "NV12"} THEN delegated(<< >>)
    ELSE IF fcc = "GRAY" THEN
        run_stores(Fill(2 * Len(data), 0), gray_stores(data, 2, TRUE), 1)
    ELSE IF fcc = "RAWRGB" THEN Err(<< >>)
    ELSE run_stores(Fill((Len(data) \div 4) * 2, 0),
                    lumaa_bgra_stores(data, Len(data) \div 4), 1)

\* the stores of the GRAY loop of LumaAFormat::write_output_buffer: d is the idx-th
\* two-byte chunk of dest and the loop stores at d[idx * 2] and d[idx * 2 + 1]
lumaa_gray_buffer_stores(data, dest) ==
    [k \in 1..(2 * Min(Len(data), Len(dest) \div 2)) |->
        LET idx == (k - 1) \div 2
            index == idx * 2 + ((k - 1) % 2)
        IN  Store(index < 2, 2 * idx + index, IF (k - 1) % 2 = 0 THEN data[idx + 1] ELSE 255)]

\* LumaAFormat::write_output_buffer
LumaAFormat_write_output_buffer(fcc, resolution, data, dest) ==
    IF fcc \in {"MJPEG", "YUYV", "NV12"} THEN Err(dest)
    ELSE IF fcc = "GRAY" THEN
        IF Len(dest) # Len(data) * 2 THEN Err(dest)
        ELSE run_stores(dest, lumaa_gray_buffer_stores(data, dest), 1)
    ELSE IF fcc = "RAWRGB" THEN Err(dest)
    ELSE
        IF Len(dest) # (Len(data) \div 4) * 2 THEN Err(dest)
        ELSE run_stores(dest,
                 lumaa_bgra_stores(data, Min(Len(data) \div 4, Len(dest) \div 2)), 1)

\* a step that stores the chroma pair of every row, odd rows included
yuyv_step_store_every_row(yuyv, width, height, ulen, vlen, y, x, slot) ==
    LET base_index == (y * width + x) * 2
        reads_ok == base_index + 3 < Len(yuyv)
        byte(o) == IF reads_ok THEN yuyv[base_index + o + 1] ELSE 0
        uv == (y \div 2) * (width \div 2) + (x \div 2)
    IN  IF slot = 0 THEN
            Store(reads_ok /\ y * width + x < width * height, y * width + x, byte(0))
        ELSE IF slot = 1 THEN
            Store(y * width + x + 1 < width * height, y * width + x + 1, byte(2))
        ELSE IF slot = 2 THEN Store(uv < ulen, width * height + uv, byte(1))
        ELSE Store(uv < vlen, width * height + ulen + uv, byte(3))

\* the four stores of one step (y, x) of convert_yuyv_to_i420_direct's loops;
\* ulen is u_plane.len(), vlen is v_plane.len()
yuyv_step_store(yuyv, width, height, ulen, vlen, y, x, slot) ==
    LET base_index == (y * width + x) * 2
        reads_ok == base_index + 3 < Len(yuyv)
        byte(o) == IF reads_ok THEN yuyv[base_index + o + 1] ELSE 0
        uv == (y \div 2) * (width \div 2) + (x \div 2)
    IN  IF slot = 0 THEN
            Store(reads_ok /\ y * width + x < width * height, y * width + x, byte(0))
        ELSE IF slot = 1 THEN
            Store(y * width + x + 1 < width * height, y * width + x + 1, byte(2))
        ELSE IF y % 2 # 0 THEN NoStore
        ELSE IF slot = 2 THEN Store(uv < ulen, width * height + uv, byte(1))
        ELSE Store(uv < vlen, width * height + ulen + uv, byte(3))

\* convert_yuyv_to_i420_direct
convert_yuyv_to_i420_direct(yuyv, width, height, dest) ==
    IF Len(dest) < width * height + 2 * (width \div 2) * (height \div 2) THEN Err(dest)
    ELSE LET uvlen == Len(dest) - width * height
             ulen == uvlen \div 2
             vlen == uvlen - ulen
             steps == (width + 1) \div 2
             stores == [k \in 1..(4 * height * steps) |->
                          yuyv_step_store(yuyv, width, height, ulen, vlen,
                                          ((k - 1) \div 4) \div steps,
                                          2 * (((k - 1) \div 4) % steps),
                                          (k - 1) % 4)]
         IN  run_stores(dest, stores, 1)

\* a step that stores the interleaved pair the other way round
nv12_step_store_swapped(nv12, width, height, vlen, row, col, slot) ==
    LET y_plane_size == width * height
        u_plane_size == (y_plane_size \div 2) \div 2
        nv12_index == row * width + col * 2 + (1 - slot)
        uv_index == row * (width \div 2) + col
        read_ok == y_plane_size + nv12_index < Len(nv12)
        val == IF read_ok THEN nv12[y_plane_size + nv12_index + 1] ELSE 0
    IN  IF slot = 0 THEN Store(read_ok /\ uv_index < u_plane_size, y_plane_size + uv_index, val)
        ELSE Store(read_ok /\ uv_index < vlen, y_plane_size + u_plane_size + uv_index, val)

\* the two stores of one step (row, col) of nv12_to_i420's loops
nv12_step_store(nv12, width, height, vlen, row, col, slot) ==
    LET y_plane_size == width * height
        u_plane_size == (y_plane_size \div 2) \div 2
        nv12_index == row * width + col * 2 + slot
        uv_index == row * (width \div 2) + col
        read_ok == y_plane_size + nv12_index < Len(nv12)
        val == IF read_ok THEN nv12[y_plane_size + nv12_index + 1] ELSE 0
    IN  IF slot = 0 THEN Store(read_ok /\ uv_index < u_plane_size, y_plane_size + uv_index, val)
        ELSE Store(read_ok /\ uv_index < vlen, y_plane_size + u_plane_size + uv_index, val)

\* nv12_to_i420: the assert!, the two split_at_mut and the slice of copy_from_slice
\* panic before any store
nv12_to_i420(nv12, width, height, i420) ==
    LET y_plane_size == width * height
        u_plane_size == (y_plane_size \div 2) \div 2
        vlen == Len(i420) - y_plane_size - u_plane_size
        copy == [k \in 1..y_plane_size |-> Store(TRUE, k - 1, nv12[k])]
        loops == [k \in 1..(2 * (height \div 2) * (width \div 2)) |->
                    nv12_step_store(nv12, width, height, vlen,
                                    ((k - 1) \div 2) \div (width \div 2),
                                    ((k - 1) \div 2) % (width \div 2),
                                    (k - 1) % 2)]
    IN  IF \/ width % 2 # 0 \/ height % 2 # 0
           \/ Len(i420) < y_plane_size
           \/ Len(i420) - y_plane_size < u_plane_size
           \/ Len(nv12) < y_plane_size
        THEN [kind |-> "Panic", buf |-> i420]
        ELSE run_stores(i420, copy \o loops, 1)

(* The f32 arithmetic of bgra_to_i420.  Every f32 that arises there is below  *)
(* 512 in magnitude and a multiple of 2^-27, so it is held as its sign and    *)
(* its magnitude in units of 2^-27, the magnitude as hi * 4096 + lo with      *)
(* lo < 4096.  Each operation computes the exact result and rounds it to 24   *)
(* significant bits, ties to even, as IEEE 754 single precision does.         *)

\* the f32 nearest to each decimal literal of bgra_to_i420, in units of 2^-27
F32_0_257 == 34493956
F32_0_504 == 67645736
F32_0_098 == 13153337
F32_0_148 == 19864224
F32_0_291 == 39057360
F32_0_439 == 58921584
F32_0_368 == 49392124
F32_0_071 == 9529459

Pow2(k) == IF k = 0 THEN 1 ELSE IF k = 1 THEN 2 ELSE IF k = 2 THEN 4 ELSE IF k = 3 THEN 8
           ELSE IF k = 4 THEN 16 ELSE IF k = 5 THEN 32 ELSE IF k = 6 THEN 64
           ELSE IF k = 7 THEN 128 ELSE IF k = 8 THEN 256 ELSE IF k = 9 THEN 512
           ELSE IF k = 10 THEN 1024 ELSE IF k = 11 THEN 2048 ELSE 4096

\* an f32 literal from its sign and its magnitude in units of 2^-27
f32_literal(neg, units) == [neg |-> neg, hi |-> units \div 4096, lo |-> units % 4096]

\* bgra[i] as f32
u8_as_f32(v) == [neg |-> FALSE, hi |-> v * 32768, lo |-> 0]

\* the rounding of an exact magnitude to 24 significant bits, ties to even
f32_round_to_nearest(neg, hi, lo) ==
    LET k == CHOOSE j \in 0..12 : hi < 4096 * Pow2(j) /\ (j = 0 \/ hi >= 2048 * Pow2(j))
        mant == hi * Pow2(12 - k) + lo \div Pow2(k)
        rem == lo % Pow2(k)
        half == Pow2(k) \div 2
        up == k > 0 /\ (rem > half \/ (rem = half /\ mant % 2 = 1))
        m == IF up THEN mant + 1 ELSE mant
    IN  [neg |-> neg, hi |-> m \div Pow2(12 - k), lo |-> (m % Pow2(12 - k)) * Pow2(k)]

\* coefficient * channel, the channel an integer of 0..255 held in an f32
f32_mul(c, v) ==
    LET l == c.lo * v
    IN  f32_round_to_nearest(c.neg, c.hi * v + l \div 4096, l % 4096)

\* a + b
f32_add_single(a, b) ==
    LET sa == IF a.neg THEN 0 - 1 ELSE 1
        sb == IF b.neg THEN 0 - 1 ELSE 1
        l == sa * a.lo + sb * b.lo
        h == sa * a.hi + sb * b.hi + l \div 4096
        lo == l % 4096
    IN  IF h >= 0 THEN f32_round_to_nearest(FALSE, h, lo)
        ELSE IF lo = 0 THEN f32_round_to_nearest(TRUE, 0 - h, 0)
        ELSE f32_round_to_nearest(TRUE, 0 - h - 1, 4096 - lo)

\* a - b
f32_sub_single(a, b) == f32_add_single(a, [b EXCEPT !.neg = ~b.neg])

\* f32::round: to the nearest integer, halves away from zero
f32_round(a) ==
    LET magnitude == a.hi \div 32768 + (IF a.hi % 32768 >= 16384 THEN 1 ELSE 0)
    IN  IF a.neg THEN 0 - magnitude ELSE magnitude

\* `as u8` of an integral f32: saturating
f32_as_u8(i) == IF i < 0 THEN 0 ELSE IF i > 255 THEN 255 ELSE i

\* (0.257 * r + 0.504 * g + 0.098 * b + 16.0).round()
y_value(r, g, b) ==
    f32_round(f32_add_single(f32_add_single(f32_add_single(
        f32_mul(f32_literal(FALSE, F32_0_257), r),
        f32_mul(f32_literal(FALSE, F32_0_504), g)),
        f32_mul(f32_literal(FALSE, F32_0_098), b)),
        u8_as_f32(16)))

\* (-0.148 * r - 0.291 * g + 0.439 * b + 128.0).round()
u_value(r, g, b) ==
    f32_round(f32_add_single(f32_add_single(f32_sub_single(
        f32_mul(f32_literal(TRUE, F32_0_148), r),
        f32_mul(f32_literal(FALSE, F32_0_291), g)),
        f32_mul(f32_literal(FALSE, F32_0_439), b)),
        u8_as_f32(128)))

\* (0.439 * r - 0.368 * g - 0.071 * b + 128.0).round()
v_value(r, g, b) ==
    f32_round(f32_add_single(f32_sub_single(f32_sub_single(
        f32_mul(f32_literal(FALSE, F32_0_439), r),
        f32_mul(f32_literal(FALSE, F32_0_368), g)),
        f32_mul(f32_literal(FALSE, F32_0_071), b)),
        u8_as_f32(128)))

\* a step that stores the chroma of every pixel, not of the even ones alone
bgra_step_store_every_pixel(bgra, width, height, vlen, y, x, slot) ==
    LET bgra_index == (y * width + x) * 4
        b == bgra[bgra_index + 1]
        g == bgra[bgra_index + 2]
        r == bgra[bgra_index + 3]
        uv_index == (y \div 2) * (width \div 2) + (x \div 2)
    IN  IF slot = 0 THEN Store(TRUE, y * width + x, f32_as_u8(y_value(r, g, b)))
        ELSE IF slot = 1 THEN
            Store(uv_index < (width * height) \div 4, width * height + uv_index,
                  f32_as_u8(u_value(r, g, b)))
        ELSE Store(uv_index < vlen,
                   width * height + (width * height) \div 4 + uv_index,
                   f32_as_u8(v_value(r, g, b)))

\* the three stores of one pixel (y, x) of bgra_to_i420's loops
bgra_step_store(bgra, width, height, vlen, y, x, slot) ==
    LET bgra_index == (y * width + x) * 4
        b == bgra[bgra_index + 1]
        g == bgra[bgra_index + 2]
        r == bgra[bgra_index + 3]
        uv_index == (y \div 2) * (width \div 2) + (x \div 2)
    IN  IF slot = 0 THEN Store(TRUE, y * width + x, f32_as_u8(y_value(r, g, b)))
        ELSE IF y % 2 # 0 \/ x % 2 # 0 THEN NoStore
        ELSE IF slot = 1 THEN
            Store(uv_index < (width * height) \div 4, width * height + uv_index,
                  f32_as_u8(u_value(r, g, b)))
        ELSE Store(uv_index < vlen,
                   width * height + (width * height) \div 4 + uv_index,
                   f32_as_u8(v_value(r, g, b)))

\* bgra_to_i420: the assert_eq! and the assert! panic before any store
bgra_to_i420(bgra, width, height, i420) ==
    LET vlen == Len(i420) - width * height - (width * height) \div 4
        stores == [k \in 1..(3 * height * width) |->
                     bgra_step_store(bgra, width, height, vlen,
                                     ((k - 1) \div 3) \div width,
                                     ((k - 1) \div 3) % width,
                                     (k - 1) % 3)]
    IN  IF Len(bgra) # width * height * 4 \/ Len(i420) < (width * height * 3) \div 2
        THEN [kind |-> "Panic", buf |-> i420]
        ELSE run_stores(i420, stores, 1)

\* I420Format::write_output
I420Format_write_output(fcc, resolution, data) ==
    IF fcc = "YUYV" THEN
        convert_yuyv_to_i420_direct(data, resolution.width_x, resolution.height_y,
            Fill((resolution.width_x * resolution.height_y * 3) \div 2, 0))
    ELSE Err(<< >>)

\* I420Format::write_output_buffer
I420Format_write_output_buffer(fcc, resolution, data, dest) ==
    IF fcc = "YUYV" THEN
        convert_yuyv_to_i420_direct(data, resolution.width_x, resolution.height_y, dest)
    ELSE IF fcc = "NV12" THEN
        nv12_to_i420(data, resolution.width_x, resolution.height_y, dest)
    ELSE IF fcc = "BGRA" THEN
        bgra_to_i420(data, resolution.width_x, resolution.height_y, dest)
    ELSE Err(dest)

\* <D as FormatDecoder>::write_output
write_output(decoder, fcc, resolution, data) ==
    IF decoder = "RgbFormat" THEN RgbFormat_write_output(fcc, resolution, data)
    ELSE IF decoder = "RgbAFormat" THEN RgbAFormat_write_output(fcc, resolution, data)
    ELSE IF decoder = "LumaFormat" THEN LumaFormat_write_output(fcc, resolution, data)
    ELSE IF decoder = "LumaAFormat" THEN LumaAFormat_write_output(fcc, resolution, data)
    ELSE I420Format_write_output(fcc, resolution, data)

\* <D as FormatDecoder>::write_output_buffer
write_output_buffer(decoder, fcc, resolution, data, dest) ==
    IF decoder = "RgbFormat" THEN RgbFormat_write_output_buffer(fcc, resolution, data, dest)
    ELSE IF decoder = "RgbAFormat" THEN RgbAFormat_write_output_buffer(fcc, resolution, data, dest)
    ELSE IF decoder = "LumaFormat" THEN LumaFormat_write_output_buffer(fcc, resolution, data, dest)
    ELSE IF decoder = "LumaAFormat" THEN LumaAFormat_write_output_buffer(fcc, resolution, data, dest)
    ELSE I420Format_write_output_buffer(fcc, resolution, data, dest)

----------------------------------------------------------------------------
(* The inputs of the transcoders. *)

Decoders == {"RgbFormat", "RgbAFormat", "LumaFormat", "LumaAFormat", "I420Format"}

\* the FrameFormat variants pixel_format.rs matches on
SourceFormats == {"MJPEG", "YUYV", "GRAY", "RAWRGB", "NV12", "BGRA"}

\* the length of a width x height frame in a source format (a compressed frame has none)
SourceLength(fcc, width, height) ==
    IF fcc = "GRAY" THEN width * height
    ELSE IF fcc = "RAWRGB" THEN width * height * 3
    ELSE IF fcc = "BGRA" THEN width * height * 4
    ELSE IF fcc = "YUYV" THEN width * height * 2
    ELSE IF fcc = "NV12" THEN (width * height * 3) \div 2
    ELSE width * height

\* the length of a width x height frame in a decoder's output layout
OutputLength(decoder, width, height) ==
    IF decoder = "RgbFormat" THEN width * height * 3
    ELSE IF decoder = "RgbAFormat" THEN width * height * 4
    ELSE IF decoder = "LumaFormat" THEN width * height
    ELSE IF decoder = "LumaAFormat" THEN width * height * 2
    ELSE width * height + 2 * (width \div 2) * (height \div 2)

\* buffers are drawn one byte short, exact and one byte long
LengthSlack == {0 - 1, 0, 1}

Lengths(exact) == {n \in {exact + d : d \in LengthSlack} : n >= 0}

\* source bytes: saturated, and a ramp whose neighbours differ
SampleData(n) == {Fill(n, 255), [i \in 1..n |-> (17 + 37 * (i - 1)) % 256]}

\* BGRA pixels (b, g, r, a): black, the four that carry U and V to their
\* extremes, and one whose luma is a rounding tie (48.5)
SampleBgraPixels ==
    { <<0, 0, 0, 255>>, <<255, 0, 0, 255>>, <<0, 255, 255, 255>>,
      <<0, 0, 255, 255>>, <<255, 255, 0, 255>>, <<31, 35, 46, 255>> }

\* a buffer of n bytes that repeats one pixel
Tiled(pixel, n) == [i \in 1..n |-> pixel[((i - 1) % 4) + 1]]

\* the source buffers of n bytes handed over for a source format
SampleSource(fcc, n) ==
    IF fcc = "BGRA" THEN SampleData(n) \cup {Tiled(px, n) : px \in SampleBgraPixels}
    ELSE SampleData(n)

\* the caller's destination is filled with a sentinel byte
SampleDest(n) == {Fill(n, 170)}

----------------------------------------------------------------------------
(* The transcoders' specification: one call of write_output or of            *)
(* write_output_buffer of one decoder.                                       *)

PixelInit ==
    /\ overflow_checks \in BOOLEAN
    /\ RangeIdle
    /\ StreamIdle
    /\ PropertiesIdle
    /\ ListsIdle
    /\ OrderIdle
    /\ NegotiatorIdle
    /\ DistanceIdle
    /\ FourccIdle
    /\ RateIdle
    /\ px_decoder \in Decoders
    /\ px_fcc \in SourceFormats
    /\ px_resolution \in {Resolution_new(w, h) : w \in 0..MaxWidth, h \in 0..MaxHeight}
    /\ \E n \in Lengths(SourceLength(px_fcc, px_resolution.width_x, px_resolution.height_y)) :
          px_data \in SampleSource(px_fcc, n)
    /\ \E n \in Lengths(OutputLength(px_decoder, px_resolution.width_x, px_resolution.height_y)) :
          px_dest0 \in SampleDest(n)
    /\ px_dest = px_dest0
    /\ px_called = "none"
    /\ px_out = [kind |-> "Ok", buf |-> << >>]

CallWriteOutput ==
    /\ px_called = "none"
    /\ px_called' = "write_output"
    /\ px_out' = write_output(px_decoder, px_fcc, px_resolution, px_data)
    /\ UNCHANGED <<overflow_checks, range_vars, stream_vars, properties_vars, lists_vars, order_vars, negotiator_vars, distance_vars, fourcc_vars, rate_vars,
                   px_decoder, px_fcc, px_resolution, px_data, px_dest0, px_dest>>

CallWriteOutputBuffer ==
    /\ px_called = "none"
    /\ px_called' = "write_output_buffer"
    /\ LET r == write_output_buffer(px_decoder, px_fcc, px_resolution, px_data, px_dest)
       IN  /\ px_out' = [kind |-> r.kind, buf |-> << >>]
           /\ px_dest' = r.buf
    /\ UNCHANGED <<overflow_checks, range_vars, stream_vars, properties_vars, lists_vars, order_vars, negotiator_vars, distance_vars, fourcc_vars, rate_vars,
                   px_decoder, px_fcc, px_resolution, px_data, px_dest0>>

PixelNext == CallWriteOutput \/ CallWriteOutputBuffer

PixelSpec == PixelInit /\ [][PixelNext]_vars

----------------------------------------------------------------------------
(* The raw codes of the Linux backend (frame_format.rs, v4l2.rs).  A FourCC  *)
(* is a sequence of four bytes; a Custom payload is a sequence of eight.     *)

\* the table handed to define_back_and_fourth_frame_format!, in source order
V4L2FourCCTable == <<
    [format |-> "H265", value |-> <<72, 69, 86, 67>>],   \* b"HEVC"
    [format |-> "H264", value |-> <<72, 50, 54, 52>>],   \* b"H264"
    [format |-> "H263", value |-> <<72, 50, 54, 51>>],   \* b"H263"
    [format |-> "Av1", value |-> <<65, 86, 49, 70>>],   \* b"AV1F"
    [format |-> "Avc1", value |-> <<65, 86, 67, 49>>],   \* b"AVC1"
    [format |-> "Mpeg1", value |-> <<77, 80, 71, 49>>],   \* b"MPG1"
    [format |-> "Mpeg2", value |-> <<77, 80, 71, 50>>],   \* b"MPG2"
    [format |-> "Mpeg4", value |-> <<77, 80, 71, 52>>],   \* b"MPG4"
    [format |-> "MJpeg", value |-> <<77, 74, 80, 71>>],   \* b"MJPG"
    [format |-> "XVid", value |-> <<88, 86, 73, 68>>],   \* b"XVID"
    [format |-> "VP8", value |-> <<86, 80, 56, 48>>],   \* b"VP80"
    [format |-> "VP9", value |-> <<86, 80, 57, 48>>],   \* b"VP90"
    [format |-> "Ayuv444", value |-> <<65, 89, 85, 86>>],   \* b"AYUV"
    [format |-> "Yuyv422", value |-> <<89, 85, 89, 86>>],   \* b"YUYV"
    [format |-> "Uyvy422", value |-> <<85, 89, 86, 89>>],   \* b"UYVY"
    [format |-> "Yvyu422", value |-> <<89, 86, 89, 85>>],   \* b"YVYU"
    [format |-> "Nv12", value |-> <<78, 86, 49, 50>>],   \* b"NV12"
    [format |-> "Nv21", value |-> <<78, 86, 50, 49>>],   \* b"NV21"
    [format |-> "Yv12", value |-> <<89, 86, 49, 50>>],   \* b"YV12"
    [format |-> "I420", value |-> <<89, 85, 49, 50>>],   \* b"YU12"
    [format |-> "Yvu9", value |-> <<89, 86, 85, 57>>],   \* b"YVU9"
    [format |-> "Luma8", value |-> <<71, 82, 69, 89>>],   \* b"GREY"
    [format |-> "Luma16", value |-> <<89, 49, 54, 32>>],   \* b"Y16 "
    [format |-> "Depth16", value |-> <<90, 49, 54, 32>>],   \* b"Z16 "
    [format |-> "Rgb332", value |-> <<82, 71, 66, 51>>],   \* b"RGB3"
    [format |-> "RgbA8888", value |-> <<65, 66, 50, 52>>],   \* b"AB24"
    [format |-> "ARgb8888", value |-> <<66, 65, 50, 52>>],   \* b"BA24"
    [format |-> "Rgb555", value |-> <<82, 88, 49, 53>>],   \* b"RX15"
    [format |-> "Rgb565", value |-> <<82, 71, 66, 80>>],   \* b"RGBP"
    [format |-> "Bayer8", value |-> <<66, 65, 56, 49>>],   \* b"BA81"
    [format |-> "Bayer16", value |-> <<66, 89, 82, 50>>]   \* b"BYR2"
>>

\* fn func_u8_8_to_fcc: the first four bytes of the payload
func_u8_8_to_fcc(u8_8) == <<u8_8[1], u8_8[2], u8_8[3], u8_8[4]>>

\* a padding that repeats the code instead of appending zeroes
func_fcc_to_u8_8_repeated(u8_4) == u8_4 \o u8_4

\* fn func_fcc_to_u8_8: the four bytes followed by four zero bytes
func_fcc_to_u8_8(u8_4) == <<u8_4[1], u8_4[2], u8_4[3], u8_4[4], 0, 0, 0, 0>>

\* fn value_to_fcc_type
value_to_fcc_type(v) == v

\* the first arm of a match over the table whose pattern matches, 0 when none
\* does; hits[k] tells whether the pattern of row k matches
RECURSIVE first_arm(_, _)
first_arm(hits, k) ==
    IF k > Len(hits) THEN 0
    ELSE IF hits[k] THEN k
    ELSE first_arm(hits, k + 1)

\* FrameFormatIntermediate::from_frame_format: the table's arms, then the
\* Custom arm, then `_ => None`
from_frame_format(frame_format) ==
    LET hits == [k \in 1..Len(V4L2FourCCTable) |->
                    frame_format = Named(V4L2FourCCTable[k].format)]
        k == first_arm(hits, 1)
    IN  IF k # 0 THEN Some(value_to_fcc_type(V4L2FourCCTable[k].value))
        ELSE IF frame_format.tag = "Custom" THEN Some(func_u8_8_to_fcc(frame_format.cv))
        ELSE None(<<0, 0, 0, 0>>)

\* FrameFormatIntermediate::into_frame_format: the table's arms, then
\* `cv => FrameFormat::Custom(..)`
into_frame_format(fourcc) ==
    LET hits == [k \in 1..Len(V4L2FourCCTable) |-> fourcc = V4L2FourCCTable[k].value]
        k == first_arm(hits, 1)
    IN  IF k # 0 THEN Named(V4L2FourCCTable[k].format)
        ELSE Custom(func_fcc_to_u8_8(fourcc))

(* The raw codes' specification: one call of from_frame_format or of         *)
(* into_frame_format.                                                        *)

NamedFrameFormats == {Named(FrameFormatVariants[i]) : i \in 1..Len(FrameFormatVariants)}

TableFourCCs == {V4L2FourCCTable[k].value : k \in 1..Len(V4L2FourCCTable)}

\* codes outside the table: zeroes, 0xFF bytes, "RGB4", "mjpg", "Y16" and a zero byte
UnknownFourCCs ==
    { <<0, 0, 0, 0>>, <<255, 255, 255, 255>>, <<82, 71, 66, 52>>,
      <<109, 106, 112, 103>>, <<89, 49, 54, 0>> }

SampleFourCCs == TableFourCCs \cup UnknownFourCCs

\* the last four bytes of the Custom payloads
SampleTails == { <<0, 0, 0, 0>>, <<0, 0, 0, 1>>, <<77, 74, 80, 71>> }

SampleCustoms == {Custom(c \o t) : c \in SampleFourCCs, t \in SampleTails}

SampleFrameFormats == NamedFrameFormats \cup SampleCustoms

FourccInit ==
    /\ overflow_checks \in BOOLEAN
    /\ RangeIdle
    /\ StreamIdle
    /\ PropertiesIdle
    /\ ListsIdle
    /\ OrderIdle
    /\ NegotiatorIdle
    /\ DistanceIdle
    /\ PixelIdle
    /\ RateIdle
    /\ fcc_format \in SampleFrameFormats
    /\ fcc_code \in SampleFourCCs
    /\ fcc_called = "none"
    /\ fcc_out = NoFourccOutcome

CallFromFrameFormat ==
    /\ fcc_called = "none"
    /\ fcc_called' = "from_frame_format"
    /\ LET r == from_frame_format(fcc_format)
       IN  fcc_out' = [kind |-> IF r.some THEN "Some" ELSE "None",
                       code |-> r.val, format |-> fcc_format]
    /\ UNCHANGED <<overflow_checks, range_vars, stream_vars, properties_vars, lists_vars, order_vars, negotiator_vars, distance_vars, pixel_vars, rate_vars,
                   fcc_format, fcc_code>>

CallIntoFrameFormat ==
    /\ fcc_called = "none"
    /\ fcc_called' = "into_frame_format"
    /\ fcc_out' = [kind |-> "Format", code |-> fcc_code, format |-> into_frame_format(fcc_code)]
    /\ UNCHANGED <<overflow_checks, range_vars, stream_vars, properties_vars, lists_vars, order_vars, negotiator_vars, distance_vars, pixel_vars, rate_vars,
                   fcc_format, fcc_code>>

FourccNext == CallFromFrameFormat \/ CallIntoFrameFormat

FourccSpec == FourccInit /\ [][FourccNext]_vars

----------------------------------------------------------------------------
(* The construction paths of FrameRate (types.rs) and the later uses of the  *)
(* value.  Rational32 is num-rational's Ratio<i32>: new_raw stores the two   *)
(* integers as given, and arithmetic on a zero denominator panics.           *)

\* FrameRate::from(Rational32): the rational as it is
FrameRate_from(value) == FrameRate_new(value.numer, value.denom)

\* impl Sub for FrameRate panics when Ratio::sub divides by a zero denominator
\* or reduces a difference over a zero denominator
FrameRate_sub_panics(self, rhs) == self.denom = 0 \/ rhs.denom = 0

\* #[derive(Ord)] panics when Ratio::cmp, past its two shortcuts (equal
\* denominators, equal numerators), floor-divides by a zero denominator
FrameRate_cmp_panics(self, other) ==
    /\ self.denom # other.denom
    /\ self.numer # other.numer
    /\ (self.denom = 0 \/ other.denom = 0)

(* The frame rate's specification: one construction, then one use. *)

RateNumerators == {0 - 30, 0, 1, 30}
RateDenominators == {0 - 2, 0 - 1, 0, 1, 2}

\* NonZeroI32 arguments of FrameRate::new
NonZeroDenominators == RateDenominators \ {0}

\* Rational32 values: Ratio::new_raw accepts any pair
SampleRationals == {[numer |-> n, denom |-> d] : n \in RateNumerators, d \in RateDenominators}

RateInit ==
    /\ overflow_checks \in BOOLEAN
    /\ RangeIdle
    /\ StreamIdle
    /\ PropertiesIdle
    /\ ListsIdle
    /\ OrderIdle
    /\ NegotiatorIdle
    /\ DistanceIdle
    /\ PixelIdle
    /\ FourccIdle
    /\ RateIdle

ConstructNew ==
    /\ rate_path = "none"
    /\ \E numerator \in RateNumerators, denominator \in NonZeroDenominators :
          rate_value' = FrameRate_new(numerator, denominator)
    /\ rate_path' = "new"
    /\ UNCHANGED <<overflow_checks, range_vars, stream_vars, properties_vars, lists_vars, order_vars, negotiator_vars, distance_vars, pixel_vars, fourcc_vars,
                   rate_used, rate_out>>

ConstructFrameRate ==
    /\ rate_path = "none"
    /\ \E fps \in RateNumerators : rate_value' = FrameRate_frame_rate(fps)
    /\ rate_path' = "frame_rate"
    /\ UNCHANGED <<overflow_checks, range_vars, stream_vars, properties_vars, lists_vars, order_vars, negotiator_vars, distance_vars, pixel_vars, fourcc_vars,
                   rate_used, rate_out>>

ConstructFrom ==
    /\ rate_path = "none"
    /\ \E value \in SampleRationals : rate_value' = FrameRate_from(value)
    /\ rate_path' = "from"
    /\ UNCHANGED <<overflow_checks, range_vars, stream_vars, properties_vars, lists_vars, order_vars, negotiator_vars, distance_vars, pixel_vars, fourcc_vars,
                   rate_used, rate_out>>

\* fmt.frame_rate() - f_point, as the Closest request computes it
UseSub ==
    /\ rate_path # "none"
    /\ rate_used = "none"
    /\ rate_used' = "sub"
    /\ \E rhs \in SampleFrameRates :
          rate_out' = [panic |-> FrameRate_sub_panics(rate_value, rhs)]
    /\ UNCHANGED <<overflow_checks, range_vars, stream_vars, properties_vars, lists_vars, order_vars, negotiator_vars, distance_vars, pixel_vars, fourcc_vars,
                   rate_path, rate_value>>

\* the comparison made by formats.sort()
UseCmp ==
    /\ rate_path # "none"
    /\ rate_used = "none"
    /\ rate_used' = "cmp"
    /\ \E other \in SampleFrameRates :
          rate_out' = [panic |-> FrameRate_cmp_panics(rate_value, other)]
    /\ UNCHANGED <<overflow_checks, range_vars, stream_vars, properties_vars, lists_vars, order_vars, negotiator_vars, distance_vars, pixel_vars, fourcc_vars,
                   rate_path, rate_value>>

\* approximate_float divides two f32 values, which never panics
UseApproximateFloat ==
    /\ rate_path # "none"
    /\ rate_used = "none"
    /\ rate_used' = "approximate_float"
    /\ rate_out' = [panic |-> FALSE]
    /\ UNCHANGED <<overflow_checks, range_vars, stream_vars, properties_vars, lists_vars, order_vars, negotiator_vars, distance_vars, pixel_vars, fourcc_vars,
                   rate_path, rate_value>>

RateNext ==
    \/ ConstructNew
    \/ ConstructFrameRate
    \/ ConstructFrom
    \/ UseSub
    \/ UseCmp
    \/ UseApproximateFloat

RateSpec == RateInit /\ [][RateNext]_vars

----------------------------------------------------------------------------
(* The ordering's specification: one call of <Resolution as Ord>::cmp. *)

SampleOrderResolutions ==
    {Resolution_new(x, y) : x \in {0, 320, 640, 1280}, y \in {0, 240, 480, 720}}

OrderInit ==
    /\ overflow_checks \in BOOLEAN
    /\ RangeIdle
    /\ StreamIdle
    /\ PropertiesIdle
    /\ ListsIdle
    /\ NegotiatorIdle
    /\ DistanceIdle
    /\ PixelIdle
    /\ FourccIdle
    /\ RateIdle
    /\ ord_self \in SampleOrderResolutions
    /\ ord_other \in SampleOrderResolutions
    /\ ord_called = FALSE
    /\ ord_out = "Equal"

CallCmp ==
    /\ ~ord_called
    /\ ord_called' = TRUE
    /\ ord_out' = Resolution_cmp(ord_self, ord_other)
    /\ UNCHANGED <<overflow_checks, range_vars, stream_vars, properties_vars, lists_vars, negotiator_vars, distance_vars, pixel_vars, fourcc_vars,
                   rate_vars, ord_self, ord_other>>

OrderNext == CallCmp

OrderSpec == OrderInit /\ [][OrderNext]_vars

----------------------------------------------------------------------------
(* The static lists of FrameFormat and the specification of looking a format
   up in them with the slice method contains. *)

ALL ==
    << Named("H263"), Named("H264"), Named("H265"), Named("Av1"), Named("Avc1"),
       Named("Mpeg1"), Named("Mpeg2"), Named("Mpeg4"), Named("MJpeg"), Named("XVid"),
       Named("VP8"), Named("VP9"), Named("Yuyv422"), Named("Uyvy422"), Named("Nv12"),
       Named("Nv21"), Named("Yv12"), Named("Luma8"), Named("Luma16"), Named("Rgb332"),
       Named("RgbA8888") >>

COMPRESSED ==
    << Named("H263"), Named("H264"), Named("H265"), Named("Av1"), Named("Avc1"),
       Named("Mpeg1"), Named("Mpeg2"), Named("Mpeg4"), Named("MJpeg"), Named("XVid"),
       Named("VP8"), Named("VP9") >>

CHROMA == << Named("Yuyv422"), Named("Uyvy422"), Named("Nv12"), Named("Nv21"), Named("Yv12") >>

LUMA == << Named("Luma8"), Named("Luma16") >>

RGB == << Named("Rgb332"), Named("RgbA8888") >>

COLOR_FORMATS ==
    << Named("H265"), Named("H264"), Named("H263"), Named("Av1"), Named("Avc1"),
       Named("Mpeg1"), Named("Mpeg2"), Named("Mpeg4"), Named("MJpeg"), Named("XVid"),
       Named("VP8"), Named("VP9"), Named("Yuyv422"), Named("Uyvy422"), Named("Nv12"),
       Named("Nv21"), Named("Yv12"), Named("Rgb332"), Named("RgbA8888") >>

GRAYSCALE == << Named("Luma8"), Named("Luma16") >>

StaticLists ==
    [ALL |-> ALL, COMPRESSED |-> COMPRESSED, CHROMA |-> CHROMA, LUMA |-> LUMA, RGB |-> RGB,
     COLOR_FORMATS |-> COLOR_FORMATS, GRAYSCALE |-> GRAYSCALE]

contains(list, format) == \E i \in 1..Len(list) : list[i] = format

ListsInit ==
    /\ overflow_checks \in BOOLEAN
    /\ RangeIdle
    /\ StreamIdle
    /\ PropertiesIdle
    /\ NegotiatorIdle
    /\ DistanceIdle
    /\ PixelIdle
    /\ FourccIdle
    /\ RateIdle
    /\ OrderIdle
    /\ query_format \in SampleFrameFormats
    /\ query_lists = {}
    /\ query_hits = {}

CallContains ==
    \E name \in DOMAIN StaticLists \ query_lists :
        /\ query_lists' = query_lists \cup {name}
        /\ query_hits' = IF contains(StaticLists[name], query_format)
                         THEN query_hits \cup {name}
                         ELSE query_hits
        /\ UNCHANGED <<overflow_checks, range_vars, stream_vars, properties_vars, negotiator_vars, distance_vars, pixel_vars, fourcc_vars,
                       rate_vars, order_vars, query_format>>

ListsNext == CallContains

ListsSpec == ListsInit /\ [][ListsNext]_vars

----------------------------------------------------------------------------
(* Properties: the controls of a device and set_control_value.  A Float
   carries its number in the field i; the samples are whole numbers. *)

ControlValue_Integer(i) == ControlValue("Integer", i, "", FALSE, << >>, {})
ControlValue_BitMask(i) == ControlValue("BitMask", i, "", FALSE, << >>, {})
ControlValue_Float(f) == ControlValue("Float", f, "", FALSE, << >>, {})
ControlValue_String(s) == ControlValue("String", 0, s, FALSE, << >>, {})
ControlValue_Boolean(b) == ControlValue("Boolean", 0, "", b, << >>, {})
ControlValue_Array(items) == ControlValue("Array", 0, "", FALSE, items, {})
ControlValue_KeyValue(k, v) == ControlValue("KeyValue", 0, "", FALSE, << >>, {<<k, v>>})
ControlValue_Map(entries) == ControlValue("Map", 0, "", FALSE, << >>, entries)

\* impl AsRef<ControlValue> for ControlValuePrimitive
as_ref(self) == ControlValue(self.tag, self.i, self.s, self.b, << >>, {})

\* ControlValuePrimitiveDescriptor: the variant and, for Integer and Float, its Range
PrimitiveDescriptor(tag, range) == [tag |-> tag, range |-> range]

\* ControlValueDescriptor: the variant with its Range, element descriptor,
\* choices or keyed descriptors
Descriptor(tag, range, element, choices, fields) ==
    [tag |-> tag, range |-> range, element |-> element, choices |-> choices, fields |-> fields]

is_valid_value(self, other) ==
    CASE self.tag = "Null" -> other.tag = "Null"
      [] self.tag = "Integer" ->
            other.tag = "Integer" /\ Range_validate_number(self.range, other.i)
      [] self.tag = "BitMask" -> other.tag = "BitMask"
      [] self.tag = "Float" ->
            other.tag = "Float" /\ Range_validate_number(self.range, other.i)
      [] self.tag = "String" -> other.tag = "String"
      [] self.tag = "Boolean" -> other.tag = "Boolean"

\* HashMap::get on a set of <<key, descriptor>> pairs with distinct keys
get(map, key) == {e \in map : e[1] = key}

\* ControlValueDescriptor::validate.  Only an arm's return of Continue leaves
\* with Continue: an arm that ends without returning reaches the final Break.
validate(self, value) ==
    CASE self.tag \in {"Null", "BitMask", "String", "Boolean"} ->
            IF value.tag = self.tag THEN "Continue" ELSE "Break"
      [] self.tag \in {"Integer", "Float"} ->
            IF value.tag = self.tag /\ ~Range_validate_number(self.range, value.i)
            THEN "Break"    \* the ? on the range's verdict
            ELSE "Break"    \* the end of the function
      [] self.tag = "Array" ->
            IF is_valid_value(self.element, value) THEN "Continue" ELSE "Break"
      [] self.tag = "MultiChoice" ->
            IF /\ value.tag = "Array"
               /\ \E n \in 1..Len(value.items) : \A k \in 1..Len(self.choices) :
                     ~is_valid_value(self.choices[k], as_ref(value.items[n]))
            THEN "Break"    \* an element that no choice accepts
            ELSE "Break"    \* the end of the function
      [] self.tag = "Enum" ->
            IF \E k \in 1..Len(self.choices) : is_valid_value(self.choices[k], value)
            THEN "Continue"
            ELSE "Break"
      [] self.tag = "Map" ->
            IF /\ value.tag = "Map"
               /\ \E e \in value.entries : \E d \in get(self.fields, e[1]) :
                     ~is_valid_value(d[2], as_ref(e[2]))
            THEN "Break"    \* an entry its descriptor rejects
            ELSE "Break"    \* the end of the function
      [] self.tag = "Menu" ->
            IF /\ value.tag = "KeyValue"
               /\ \E e \in value.entries : \E d \in get(self.fields, e[1]) :
                     is_valid_value(d[2], as_ref(e[2]))
            THEN "Continue"
            ELSE "Break"

\* ControlBody: the descriptor and the stored value (the type, the flags and
\* the default value are not touched by set_value)
ControlBody_new(control_value_descriptor, value) ==
    [descriptor |-> control_value_descriptor, value |-> value]

\* ControlBody::set_value: the body afterwards and the result
set_value(self, value) ==
    IF validate(self.descriptor, value) = "Break"
    THEN [body |-> self,
          result |-> [kind |-> "Err", error |-> "Failed to validate control value"]]
    ELSE [body |-> [self EXCEPT !.value = Some(value)],
          result |-> [kind |-> "Ok", error |-> ""]]

\* Properties::set_control_value: the controls afterwards and the result
set_control_value(controls, control_id, value) ==
    LET not_found == [kind |-> "Err", error |-> "Not Found/Not Supported"]
    IN  IF control_id \in DOMAIN controls
        THEN LET set == set_value(controls[control_id], value)
             IN  IF set.result.kind = "Err"
                 THEN [controls |-> controls, result |-> set.result]    \* the ? returns it
                 ELSE [controls |-> [controls EXCEPT ![control_id] = set.body],
                       result |-> not_found]
        ELSE [controls |-> controls, result |-> not_found]

SampleRange == Range_new(0, 10, 5)

SamplePrimitives ==
    {Primitive("Null", 0, "", FALSE), Primitive("Integer", 5, "", FALSE),
     Primitive("Integer", 11, "", FALSE), Primitive("String", 0, "auto", FALSE),
     Primitive("Boolean", 0, "", TRUE)}

SampleControlValues ==
    {ControlValue_Null, ControlValue_Integer(5), ControlValue_Integer(11),
     ControlValue_BitMask(3), ControlValue_Float(5), ControlValue_Float(11),
     ControlValue_String("auto"), ControlValue_Boolean(TRUE),
     ControlValue_Array(<< >>),
     ControlValue_Array(<<Primitive("Integer", 5, "", FALSE)>>),
     ControlValue_Array(<<Primitive("Integer", 5, "", FALSE), Primitive("Boolean", 0, "", TRUE)>>),
     ControlValue_Map({}),
     ControlValue_Map({<<"mode", Primitive("Integer", 5, "", FALSE)>>}),
     ControlValue_Map({<<"mode", Primitive("Integer", 11, "", FALSE)>>})}
    \cup {ControlValue_KeyValue(k, p) : k \in {"mode", "speed"}, p \in SamplePrimitives}

SamplePrimitiveDescriptors ==
    {PrimitiveDescriptor(tag, SampleRange) :
        tag \in {"Null", "Integer", "BitMask", "Float", "String", "Boolean"}}

NoElement == PrimitiveDescriptor("Null", SampleRange)

SampleChoices ==
    << PrimitiveDescriptor("Integer", SampleRange), PrimitiveDescriptor("String", SampleRange) >>

SampleFields == {<<"mode", PrimitiveDescriptor("Integer", SampleRange)>>}

SampleDescriptors ==
    {Descriptor(tag, SampleRange, NoElement, << >>, {}) :
        tag \in {"Null", "Integer", "BitMask", "Float", "String", "Boolean"}}
    \cup {Descriptor("Array", SampleRange, e, << >>, {}) : e \in SamplePrimitiveDescriptors}
    \cup {Descriptor(tag, SampleRange, NoElement, SampleChoices, {}) :
            tag \in {"MultiChoice", "Enum"}}
    \cup {Descriptor(tag, SampleRange, NoElement, << >>, SampleFields) : tag \in {"Map", "Menu"}}

SampleStoredValues == {None(ControlValue_Null), Some(ControlValue_Boolean(TRUE))}

SampleBodies == {ControlBody_new(d, v) : d \in SampleDescriptors, v \in SampleStoredValues}

SampleControlIds == {"FocusMode", "ZoomMode", "PlatformSpecific(7)"}

\* no control, FocusMode alone, or FocusMode beside a Boolean ZoomMode
SampleControls ==
    {NoControls}
    \cup {[id \in {"FocusMode"} |-> body] : body \in SampleBodies}
    \cup {[id \in {"FocusMode", "ZoomMode"} |->
              IF id = "FocusMode"
              THEN body
              ELSE ControlBody_new(Descriptor("Boolean", SampleRange, NoElement, << >>, {}),
                                   None(ControlValue_Null))] : body \in SampleBodies}

PropertiesInit ==
    /\ overflow_checks \in BOOLEAN
    /\ RangeIdle
    /\ StreamIdle
    /\ NegotiatorIdle
    /\ DistanceIdle
    /\ PixelIdle
    /\ FourccIdle
    /\ RateIdle
    /\ OrderIdle
    /\ ListsIdle
    /\ prop_controls0 \in SampleControls
    /\ prop_controls = prop_controls0
    /\ prop_control_id \in SampleControlIds
    /\ prop_value \in SampleControlValues
    /\ prop_called = FALSE
    /\ prop_out = NoSetOutcome

CallSetControlValue ==
    /\ ~prop_called
    /\ prop_called' = TRUE
    /\ LET done == set_control_value(prop_controls, prop_control_id, prop_value)
       IN  /\ prop_controls' = done.controls
           /\ prop_out' = done.result
    /\ UNCHANGED <<overflow_checks, range_vars, stream_vars, negotiator_vars, distance_vars, pixel_vars, fourcc_vars,
                   rate_vars, order_vars, lists_vars, prop_controls0, prop_control_id,
                   prop_value>>

PropertiesNext == CallSetControlValue

PropertiesSpec == PropertiesInit /\ [][PropertiesNext]_vars

----------------------------------------------------------------------------
(* Stream: a boxed StreamInnerTrait with its frame channel.  The inner's
   sender and the result of each stop() are the environment's. *)

MaxFrames == 2

StopResults == {"Ok", "Err"}

\* Stream::check_disconnected
check_disconnected(disconnected) == IF disconnected THEN "Err" ELSE "Ok"

\* impl Drop for Stream: stop() is called and its result dropped
drop(stops, result) == Append(stops, result)

\* Stream::stop_stream(mut self): stop() is called, its error returned by ?,
\* and self, which the function owns, is dropped when the function returns
stop_stream(stops, result, result_in_drop) ==
    [stops |-> drop(Append(stops, result), result_in_drop), kind |-> result]

StreamInit ==
    /\ overflow_checks \in BOOLEAN
    /\ RangeIdle
    /\ NegotiatorIdle
    /\ DistanceIdle
    /\ PixelIdle
    /\ FourccIdle
    /\ RateIdle
    /\ OrderIdle
    /\ ListsIdle
    /\ PropertiesIdle
    /\ strm_alive = TRUE
    /\ strm_frames \in 0..MaxFrames
    /\ strm_disconnected = FALSE
    /\ strm_stops = << >>
    /\ strm_out = NoStreamOutcome

\* the inner's sender puts a frame into the channel
SendFrame ==
    /\ ~strm_disconnected
    /\ strm_frames < MaxFrames
    /\ strm_frames' = strm_frames + 1
    /\ UNCHANGED <<overflow_checks, range_vars, negotiator_vars, distance_vars, pixel_vars, fourcc_vars,
                   rate_vars, order_vars, lists_vars, properties_vars, strm_alive,
                   strm_disconnected, strm_stops, strm_out>>

\* the inner's sender is dropped
Disconnect ==
    /\ ~strm_disconnected
    /\ strm_disconnected' = TRUE
    /\ UNCHANGED <<overflow_checks, range_vars, negotiator_vars, distance_vars, pixel_vars, fourcc_vars,
                   rate_vars, order_vars, lists_vars, properties_vars, strm_alive, strm_frames,
                   strm_stops, strm_out>>

CallCheckDisconnected ==
    /\ strm_alive
    /\ strm_out' = [op |-> "check_disconnected", kind |-> check_disconnected(strm_disconnected)]
    /\ UNCHANGED <<overflow_checks, range_vars, negotiator_vars, distance_vars, pixel_vars, fourcc_vars,
                   rate_vars, order_vars, lists_vars, properties_vars, strm_alive, strm_frames,
                   strm_disconnected, strm_stops>>

\* poll_frame: recv() waits while the channel is empty and connected
CallPollFrame ==
    /\ strm_alive
    /\ strm_disconnected \/ strm_frames > 0
    /\ IF check_disconnected(strm_disconnected) = "Err"
       THEN /\ strm_out' = [op |-> "poll_frame", kind |-> "Err"]
            /\ strm_frames' = strm_frames
       ELSE /\ strm_out' = [op |-> "poll_frame", kind |-> "Ok"]
            /\ strm_frames' = strm_frames - 1
    /\ UNCHANGED <<overflow_checks, range_vars, negotiator_vars, distance_vars, pixel_vars, fourcc_vars,
                   rate_vars, order_vars, lists_vars, properties_vars, strm_alive,
                   strm_disconnected, strm_stops>>

CallTryPollFrame ==
    /\ strm_alive
    /\ IF check_disconnected(strm_disconnected) = "Err"
       THEN /\ strm_out' = [op |-> "try_poll_frame", kind |-> "Err"]
            /\ strm_frames' = strm_frames
       ELSE IF strm_frames = 0
       THEN /\ strm_out' = [op |-> "try_poll_frame", kind |-> "Ok(None)"]
            /\ strm_frames' = strm_frames
       ELSE /\ strm_out' = [op |-> "try_poll_frame", kind |-> "Ok(Some)"]
            /\ strm_frames' = strm_frames - 1
    /\ UNCHANGED <<overflow_checks, range_vars, negotiator_vars, distance_vars, pixel_vars, fourcc_vars,
                   rate_vars, order_vars, lists_vars, properties_vars, strm_alive,
                   strm_disconnected, strm_stops>>

CallStopStream ==
    /\ strm_alive
    /\ \E result \in StopResults, result_in_drop \in StopResults :
          LET done == stop_stream(strm_stops, result, result_in_drop)
          IN  /\ strm_stops' = done.stops
              /\ strm_out' = [op |-> "stop_stream", kind |-> done.kind]
    /\ strm_alive' = FALSE
    /\ UNCHANGED <<overflow_checks, range_vars, negotiator_vars, distance_vars, pixel_vars, fourcc_vars,
                   rate_vars, order_vars, lists_vars, properties_vars, strm_frames,
                   strm_disconnected>>

\* the Stream goes out of scope without stop_stream
DropStream ==
    /\ strm_alive
    /\ \E result \in StopResults : strm_stops' = drop(strm_stops, result)
    /\ strm_out' = [op |-> "drop", kind |-> "None"]
    /\ strm_alive' = FALSE
    /\ UNCHANGED <<overflow_checks, range_vars, negotiator_vars, distance_vars, pixel_vars, fourcc_vars,
                   rate_vars, order_vars, lists_vars, properties_vars, strm_frames,
                   strm_disconnected>>

StreamNext ==
    \/ SendFrame
    \/ Disconnect
    \/ CallCheckDisconnected
    \/ CallPollFrame
    \/ CallTryPollFrame
    \/ CallStopStream
    \/ DropStream

StreamSpec == StreamInit /\ [][StreamNext]_vars

----------------------------------------------------------------------------
(* min_max_range, one loop iteration at a time, on integers far from the
   limits of their type. *)

MaxNumber == 3
MaxStep == 3

\* the longest vector the model lets the loop build; longer than any the
\* sample arguments with a positive step ask for
MaxTerms == 2 * MaxNumber + 2

\* an iteration that pushes the counter before it looks at max
loop_iteration_push_first(counter, nums, max, step) ==
    LET next == counter + step
    IN  [counter |-> next, nums |-> Append(nums, next), broke |-> next > max]

\* one iteration of the loop: counter += step; break if counter > max; push
loop_iteration(counter, nums, max, step) ==
    LET next == counter + step
    IN  IF next > max
        THEN [counter |-> next, nums |-> nums, broke |-> TRUE]
        ELSE [counter |-> next, nums |-> Append(nums, next), broke |-> FALSE]

RangeInit ==
    /\ overflow_checks \in BOOLEAN
    /\ NegotiatorIdle
    /\ DistanceIdle
    /\ PixelIdle
    /\ FourccIdle
    /\ RateIdle
    /\ OrderIdle
    /\ ListsIdle
    /\ PropertiesIdle
    /\ StreamIdle
    /\ rng_min \in (-MaxNumber)..MaxNumber
    /\ rng_max \in (-MaxNumber)..MaxNumber
    /\ rng_step \in 0..MaxStep
    /\ rng_pc = "start"
    /\ rng_counter = 0
    /\ rng_nums = << >>

\* let mut counter = min; let mut nums = vec![min];
EnterMinMaxRange ==
    /\ rng_pc = "start"
    /\ rng_counter' = rng_min
    /\ rng_nums' = <<rng_min>>
    /\ rng_pc' = "loop"
    /\ UNCHANGED <<overflow_checks, negotiator_vars, distance_vars, pixel_vars, fourcc_vars,
                   rate_vars, order_vars, lists_vars, properties_vars, stream_vars, rng_min,
                   rng_max, rng_step>>

LoopIteration ==
    /\ rng_pc = "loop"
    /\ Len(rng_nums) < MaxTerms
    /\ LET done == loop_iteration(rng_counter, rng_nums, rng_max, rng_step)
       IN  /\ rng_counter' = done.counter
           /\ rng_nums' = done.nums
           /\ rng_pc' = IF done.broke THEN "return" ELSE "loop"
    /\ UNCHANGED <<overflow_checks, negotiator_vars, distance_vars, pixel_vars, fourcc_vars,
                   rate_vars, order_vars, lists_vars, properties_vars, stream_vars, rng_min,
                   rng_max, rng_step>>

RangeNext == EnterMinMaxRange \/ LoopIteration

RangeSpec == RangeInit /\ [][RangeNext]_vars

\* a call that has begun keeps running: its next step is taken
RangeFairSpec == RangeInit /\ [][RangeNext]_vars /\ WF_vars(RangeNext)

----------------------------------------------------------------------------
(* What the claims speak of, stated on the inputs alone. *)

Elements(s) == {s[i] : i \in 1..Len(s)}

\* a's resolution is below b's: narrower, or as wide and lower
ResolutionBelow(a, b) ==
    \/ a.width_x < b.width_x
    \/ a.width_x = b.width_x /\ a.height_y < b.height_y

\* frame rate a is below frame rate b, as rationals
FrameRateBelow(a, b) == a.numer * b.denom < b.numer * a.denom

SameFrameRate(a, b) == a.numer * b.denom = b.numer * a.denom

ResolutionWithin(range, r) ==
    ~ResolutionBelow(r, range.minimum) /\ ~ResolutionBelow(range.maximum, r)

FrameRateWithin(range, fr) ==
    ~FrameRateBelow(fr, range.minimum) /\ ~FrameRateBelow(range.maximum, fr)

\* a precedes b in the lexicographic order on (resolution, format, frame rate)
CameraFormatBelow(a, b) ==
    \/ ResolutionBelow(a.resolution, b.resolution)
    \/ /\ a.resolution = b.resolution
       /\ \/ FrameFormat_discriminant(a.format) < FrameFormat_discriminant(b.format)
          \/ a.format = b.format /\ FrameRateBelow(a.frame_rate, b.frame_rate)

\* the candidates that pass the filter of the request's strategy
Qualifying ==
    {c \in Elements(list_of_formats) :
        /\ c.format \in request.frame_format
        /\ request.kind = "HighestResolution" => ResolutionWithin(request.resolution, c.resolution)
        /\ request.kind = "HighestFrameRate" => FrameRateWithin(request.frame_rate, c.frame_rate)
        /\ request.kind = "Exact" =>
              c.resolution = request.resolution /\ SameFrameRate(c.frame_rate, request.frame_rate)}

\* C1: HighestResolution: when some candidate has an allowed format and a
\* resolution within the range, resolve returns one of them, of the maximum
\* resolution, and of the maximum frame rate among those of that resolution.
C1_HighestResolutionReturnsMaximum ==
    (called = "resolve" /\ request.kind = "HighestResolution" /\ Qualifying # {}) =>
        /\ resolved.kind = "Some"
        /\ resolved.val \in Qualifying
        /\ \A c \in Qualifying :
              /\ ~ResolutionBelow(resolved.val.resolution, c.resolution)
              /\ c.resolution = resolved.val.resolution =>
                    ~FrameRateBelow(resolved.val.frame_rate, c.frame_rate)

\* C2: HighestFrameRate: when some candidate has an allowed format and a frame
\* rate within the range, resolve returns one of them, of the maximum frame
\* rate, and of the maximum resolution among those of that frame rate.
C2_HighestFrameRateReturnsMaximum ==
    (called = "resolve" /\ request.kind = "HighestFrameRate" /\ Qualifying # {}) =>
        /\ resolved.kind = "Some"
        /\ resolved.val \in Qualifying
        /\ \A c \in Qualifying :
              /\ ~FrameRateBelow(resolved.val.frame_rate, c.frame_rate)
              /\ SameFrameRate(c.frame_rate, resolved.val.frame_rate) =>
                    ~ResolutionBelow(resolved.val.resolution, c.resolution)

\* C3: for every strategy resolve returns None, as a normal result, when the
\* candidate list is empty and when no candidate passes the strategy's filter.
C3_NoMatchIsNone ==
    (called = "resolve" /\ Qualifying = {}) => resolved.kind = "None"

\* C4: Exact: when some candidate has an allowed format and the requested
\* resolution and frame rate, resolve returns such a candidate, and no other
\* such candidate precedes it in the CameraFormat order.
C4_ExactReturnsMinimumMatch ==
    (called = "resolve" /\ request.kind = "Exact" /\ Qualifying # {}) =>
        /\ resolved.kind = "Some"
        /\ resolved.val \in Elements(list_of_formats)
        /\ resolved.val.resolution = request.resolution
        /\ SameFrameRate(resolved.val.frame_rate, request.frame_rate)
        /\ resolved.val.format \in request.frame_format
        /\ \A c \in Qualifying : ~CameraFormatBelow(c, resolved.val)

\* C4's case: two candidates of different formats both match the Exact request.
C4_Witness ==
    /\ called = "resolve"
    /\ request.kind = "Exact"
    /\ resolved.kind = "Some"
    /\ Len(list_of_formats) = 2
    /\ list_of_formats[1] \in Qualifying
    /\ list_of_formats[2] \in Qualifying
    /\ CameraFormatBelow(list_of_formats[2], list_of_formats[1])

\* the cost of the Closest strategy on true integers and rationals, as a fraction <<n, d>>
TrueCost(c) ==
    LET p == request.resolution.val.preferred
        q == request.frame_rate.val.preferred
        dr == IF request.resolution.some
              THEN (c.resolution.width_x - p.width_x) * (c.resolution.width_x - p.width_x)
                   + (c.resolution.height_y - p.height_y) * (c.resolution.height_y - p.height_y)
              ELSE 0
        fn == IF request.frame_rate.some
              THEN Abs(c.frame_rate.numer * q.denom - q.numer * c.frame_rate.denom)
              ELSE 0
        fd == IF request.frame_rate.some THEN c.frame_rate.denom * q.denom ELSE 1
    IN  << dr * fd + fn, fd >>

CostBelow(a, b) == TrueCost(a)[1] * TrueCost(b)[2] < TrueCost(b)[1] * TrueCost(a)[2]

\* the index of the first candidate of minimum cost among the allowed ones
IsFirstCheapest(i) ==
    /\ list_of_formats[i] \in Qualifying
    /\ \A j \in 1..Len(list_of_formats) :
          list_of_formats[j] \in Qualifying =>
              /\ ~CostBelow(list_of_formats[j], list_of_formats[i])
              /\ j < i => CostBelow(list_of_formats[i], list_of_formats[j])

\* C5: Closest: resolve returns the first candidate, in list order, of minimum
\* cost among the candidates of an allowed format, whether the candidates are
\* smaller or larger than the preferred resolution.
C5_ClosestReturnsFirstCheapest ==
    (called = "resolve" /\ request.kind = "Closest" /\ Qualifying # {}) =>
        /\ resolved.kind = "Some"
        /\ \E i \in 1..Len(list_of_formats) :
              IsFirstCheapest(i) /\ resolved.val = list_of_formats[i]

\* C6: every descriptor sort_formats returns, and so every descriptor resolve
\* returns, is an element of the input list of an allowed format, and lies in
\* the requested range for the two range strategies.
C6_ReturnedAreFilteredCandidates ==
    /\ (called = "sort_formats" /\ ~sorted.panic) =>
          \A i \in 1..Len(sorted.val) : sorted.val[i] \in Qualifying
    /\ (called = "resolve" /\ resolved.kind = "Some") => resolved.val \in Qualifying

\* C6's case: a range strategy kept some candidates and dropped others.
C6_Witness ==
    /\ called = "sort_formats"
    /\ request.kind = "HighestResolution"
    /\ Len(sorted.val) >= 1
    /\ Len(sorted.val) < Len(list_of_formats)
    /\ \E c \in Elements(list_of_formats) :
          c.format \in request.frame_format /\ c \notin Qualifying

\* digits of |a - b| for naturals below 2^31
AbsDiffDigits(a, b) == U32FromNat(IF a < b THEN b - a ELSE a - b)

\* (a.width - b.width)^2 + (a.height - b.height)^2 on true integers: nine base-256 digits
TrueDistance(a, b) ==
    LET dx == AbsDiffDigits(a.width_x, b.width_x)
        dy == AbsDiffDigits(a.height_y, b.height_y)
    IN  AddDigits(MulDigits(dx, dx, 1, 0), MulDigits(dy, dy, 1, 0), 1, 0)

\* C7: distance_from neither panics nor wraps and returns the sum of the squared
\* true differences of the widths and of the heights, for every pair of resolutions.
C7_DistanceIsExact ==
    dist_called =>
        /\ ~dist_out.panic
        /\ ~dist_out.wrapped
        /\ dist_out.val \o << 0, 0, 0, 0, 0 >> = TrueDistance(dist_self, dist_other)

\* the source formats for which a decoder's write_output_buffer has a converting arm of its own
ConvertsInBuffer(decoder, fcc) ==
    \/ decoder \in {"RgbFormat", "RgbAFormat"} /\ fcc \in {"GRAY", "RAWRGB", "BGRA"}
    \/ decoder \in {"LumaFormat", "LumaAFormat"} /\ fcc \in {"GRAY", "BGRA"}
    \/ decoder = "I420Format" /\ fcc \in {"YUYV", "NV12", "BGRA"}

\* the source buffer has the length its format and the resolution imply
WellFormedSource ==
    /\ px_fcc # "MJPEG"
    /\ Len(px_data) = SourceLength(px_fcc, px_resolution.width_x, px_resolution.height_y)

\* C8: write_output_buffer with a destination shorter or longer than the output
\* length of the frame returns an error and leaves every destination byte unchanged.
C8_WrongLengthIsRejectedUntouched ==
    (/\ px_called = "write_output_buffer"
     /\ ConvertsInBuffer(px_decoder, px_fcc)
     /\ WellFormedSource
     /\ Len(px_dest0) #
            OutputLength(px_decoder, px_resolution.width_x, px_resolution.height_y)) =>
        px_out.kind = "Err" /\ px_dest = px_dest0

\* C9: RgbFormat::write_output_buffer with a BGRA source of 4n bytes and a
\* destination of 3n - 1 bytes returns an error and leaves the destination unchanged.
C9_BgraToRgbOneShortIsRejected ==
    (/\ px_called = "write_output_buffer"
     /\ px_decoder = "RgbFormat"
     /\ px_fcc = "BGRA"
     /\ Len(px_data) % 4 = 0
     /\ Len(px_dest0) = 3 * (Len(px_data) \div 4) - 1) =>
        px_out.kind = "Err" /\ px_dest = px_dest0

\* C9's case: the call has run on a frame of two pixels or more and a sentinel-filled
\* destination one byte short
C9_Witness ==
    /\ px_called = "write_output_buffer"
    /\ px_decoder = "RgbFormat"
    /\ px_fcc = "BGRA"
    /\ Len(px_data) >= 8
    /\ Len(px_data) % 4 = 0
    /\ Len(px_dest0) = 3 * (Len(px_data) \div 4) - 1
    /\ px_dest0 = Fill(Len(px_dest0), 170)
    /\ px_out.kind = "Err"

\* C10: the buffer write_output returns for a well-formed frame has the length of
\* the decoder's output layout for the frame's resolution.
C10_WriteOutputHasPredictedSize ==
    (/\ px_called = "write_output"
     /\ WellFormedSource
     /\ px_out.kind = "Ok") =>
        Len(px_out.buf) = OutputLength(px_decoder, px_resolution.width_x, px_resolution.height_y)

----------------------------------------------------------------------------
(* The raw-code conversions. *)

IsNamed(f) == f.tag # "Custom"

\* C11: for every named FrameFormat variant f, from_frame_format(f) is
\* Some(code), no other named variant is given the same code, and
\* into_frame_format(code) is f again.
C11_NamedVariantsRoundTrip ==
    (fcc_called = "from_frame_format" /\ IsNamed(fcc_format)) =>
        /\ fcc_out.kind = "Some"
        /\ \A g \in NamedFrameFormats \ {fcc_format} :
              from_frame_format(g) # Some(fcc_out.code)
        /\ into_frame_format(fcc_out.code) = fcc_format

\* C12: into_frame_format always yields a FrameFormat, and for a code outside
\* the table it yields Custom of the code followed by four zero bytes, which
\* from_frame_format turns back into the same four bytes.
C12_UnknownCodesRoundTrip ==
    fcc_called = "into_frame_format" =>
        /\ fcc_out.format \in NamedFrameFormats \/ (fcc_out.format.tag = "Custom" /\ Len(fcc_out.format.cv) = 8)
        /\ fcc_code \notin TableFourCCs =>
              /\ fcc_out.format = Custom(fcc_code \o <<0, 0, 0, 0>>)
              /\ from_frame_format(fcc_out.format) = Some(fcc_code)

C12_Witness ==
    /\ fcc_called = "into_frame_format"
    /\ fcc_code = <<82, 71, 66, 52>>
    /\ fcc_out.format = Custom(<<82, 71, 66, 52, 0, 0, 0, 0>>)

\* C13: for every eight-byte payload cv, from_frame_format(Custom(cv)) is a
\* code from which into_frame_format gives Custom(cv) back.
C13_CustomPayloadRoundTrips ==
    (fcc_called = "from_frame_format" /\ ~IsNamed(fcc_format)) =>
        /\ fcc_out.kind = "Some"
        /\ into_frame_format(fcc_out.code) = fcc_format

----------------------------------------------------------------------------
(* The frame rate. *)

\* C14: every FrameRate that a construction path (new, frame_rate, from)
\* has yielded has a strictly positive denominator, and no later use of it
\* panics.
C14_DenominatorIsPositive ==
    /\ rate_path # "none" => rate_value.denom > 0
    /\ rate_used # "none" => ~rate_out.panic

----------------------------------------------------------------------------
(* The transcoders' failure conditions. *)

\* the resolution has an odd width or an odd height
OddDimension == px_resolution.width_x % 2 = 1 \/ px_resolution.height_y % 2 = 1

\* the source is compressed, or has the length its format and the resolution imply
SourceLengthFits ==
    \/ px_fcc = "MJPEG"
    \/ Len(px_data) = SourceLength(px_fcc, px_resolution.width_x, px_resolution.height_y)

\* the source is raw and shorter than its format and the resolution imply
ShortSource ==
    /\ px_fcc # "MJPEG"
    /\ Len(px_data) < SourceLength(px_fcc, px_resolution.width_x, px_resolution.height_y)

\* what write_output_buffer does with the same frame and a destination of the
\* output length of the frame
SameFrameInBuffer ==
    write_output_buffer(px_decoder, px_fcc, px_resolution, px_data,
        Fill(OutputLength(px_decoder, px_resolution.width_x, px_resolution.height_y), 170))

\* C15: a transcoder rejects a source format if and only if the format is outside
\* its declared accepted set, the same set for both entry points; hence, for a
\* frame of fitting length and even dimensions, write_output rejects the frame
\* exactly when write_output_buffer, given a destination of the output length,
\* rejects it.
C15_BothEntryPointsAcceptTheSameFormats ==
    (/\ px_called = "write_output"
     /\ SourceLengthFits
     /\ ~OddDimension) =>
        (px_out.kind = "Err" <=> SameFrameInBuffer.kind = "Err")

\* C16: a conversion to planar 4:2:0 from YUYV, NV12 or BGRA at a resolution with
\* an odd width or an odd height returns an error and has written no destination
\* byte; it does not panic.
C16_OddDimensionIsRejectedUntouched ==
    (/\ px_called # "none"
     /\ px_decoder = "I420Format"
     /\ px_fcc \in {"YUYV", "NV12", "BGRA"}
     /\ OddDimension) =>
        px_out.kind = "Err" /\ px_dest = px_dest0

\* C17: a conversion whose source buffer is shorter than the resolution and the
\* source format require returns an error; it neither completes nor panics on an
\* index outside a buffer.
C17_ShortSourceIsRejected ==
    (/\ px_called # "none"
     /\ ShortSource
     /\ px_out.kind # "Delegated") =>
        px_out.kind = "Err"

----------------------------------------------------------------------------
(* The conversions to planar 4:2:0. *)

\* the call is a conversion of a fcc frame to planar 4:2:0 at even dimensions, with a
\* source of the frame's length and, for write_output_buffer, a destination of
\* the output length
PlanarCase(fcc) ==
    /\ px_called # "none"
    /\ px_decoder = "I420Format"
    /\ px_fcc = fcc
    /\ ~OddDimension
    /\ Len(px_data) = SourceLength(fcc, px_resolution.width_x, px_resolution.height_y)
    /\ px_called = "write_output_buffer" =>
          Len(px_dest0) = OutputLength("I420Format", px_resolution.width_x, px_resolution.height_y)

\* the buffer the call has filled
Converted == IF px_called = "write_output" THEN px_out.buf ELSE px_dest

\* the number of positions of a buffer that hold the byte v
Occurrences(buf, v) == Cardinality({i \in 1..Len(buf) : buf[i] = v})

\* the planar frame of a YUYV frame: the luma sample of every pixel, then the U
\* and then the V of every pixel pair of the even rows
YuyvPlanar(yuyv, w, h) ==
    [k \in 1..(w * h + 2 * (w \div 2) * (h \div 2)) |->
        IF k <= w * h THEN yuyv[2 * (k - 1) + 1]
        ELSE LET q == (w \div 2) * (h \div 2)
                 v == IF k > w * h + q THEN 1 ELSE 0
                 j == k - w * h - v * q - 1
                 r == 2 * (j \div (w \div 2))
                 pair == j % (w \div 2)
             IN  yuyv[(r * w + 2 * pair) * 2 + 2 + 2 * v]]

\* C18: for even width and height, a YUYV source of 2wh bytes and a destination
\* of wh + 2(w/2)(h/2) bytes, convert_yuyv_to_i420_direct succeeds, the Y plane
\* holds the luma sample of every pixel, and U and V hold the chroma pair of
\* every pixel pair of the even rows; the chroma of odd rows appears nowhere.
C18_YuyvChromaIsRowDecimated ==
    (PlanarCase("YUYV") /\ px_called = "write_output_buffer") =>
        /\ px_out.kind = "Ok"
        /\ px_dest = YuyvPlanar(px_data, px_resolution.width_x, px_resolution.height_y)

\* C18's case: a 4x4 ramp has been converted, whose rows 1 and 3 carry chroma
\* that differs from that of rows 0 and 2
C18_Witness ==
    /\ PlanarCase("YUYV")
    /\ px_called = "write_output_buffer"
    /\ px_resolution = Resolution_new(4, 4)
    /\ px_data[2] # px_data[10]
    /\ px_out.kind = "Ok"
    /\ px_dest # px_dest0

\* the planar frame of an NV12 frame: the luma plane, then the even and then the
\* odd bytes of the chroma plane
Nv12Planar(nv12, w, h) ==
    [k \in 1..((w * h * 3) \div 2) |->
        IF k <= w * h THEN nv12[k]
        ELSE LET q == (w \div 2) * (h \div 2)
                 v == IF k > w * h + q THEN 1 ELSE 0
                 j == k - w * h - v * q - 1
                 row == j \div (w \div 2)
                 col == j % (w \div 2)
             IN  nv12[w * h + row * w + 2 * col + v + 1]]

\* C19: for even width and height, an NV12 source of 3wh/2 bytes and a
\* destination of the same length, nv12_to_i420 copies the luma plane and
\* de-interleaves the chroma plane, U[row (w/2) + col] = src[wh + row w + 2 col]
\* and V[row (w/2) + col] = src[wh + row w + 2 col + 1]; every byte value occurs
\* as often in the destination as in the source.
C19_Nv12IsDeinterleaved ==
    (PlanarCase("NV12") /\ px_called = "write_output_buffer") =>
        /\ px_out.kind = "Ok"
        /\ px_dest = Nv12Planar(px_data, px_resolution.width_x, px_resolution.height_y)
        /\ \A v \in 0..255 : Occurrences(px_dest, v) = Occurrences(px_data, v)

\* C19's case: a 4x4 ramp has been de-interleaved
C19_Witness ==
    /\ PlanarCase("NV12")
    /\ px_called = "write_output_buffer"
    /\ px_resolution = Resolution_new(4, 4)
    /\ px_data[17] # px_data[18]
    /\ px_out.kind = "Ok"
    /\ px_dest # px_dest0

\* pixel (row, col) of a BGRA frame, as <<b, g, r>>
BgraPixel(bgra, w, row, col) ==
    LET i == (row * w + col) * 4
    IN  <<bgra[i + 1], bgra[i + 2], bgra[i + 3]>>

\* the planar frame of a BGRA frame: the luma of every pixel, then the U and then
\* the V of the pixel at the even row and even column of every 2x2 block
BgraPlanar(bgra, w, h) ==
    [k \in 1..((w * h * 3) \div 2) |->
        IF k <= w * h
        THEN LET px == BgraPixel(bgra, w, (k - 1) \div w, (k - 1) % w)
             IN  y_value(px[3], px[2], px[1])
        ELSE LET q == (w \div 2) * (h \div 2)
                 v == IF k > w * h + q THEN 1 ELSE 0
                 j == k - w * h - v * q - 1
                 px == BgraPixel(bgra, w, 2 * (j \div (w \div 2)), 2 * (j % (w \div 2)))
             IN  IF v = 0 THEN u_value(px[3], px[2], px[1])
                 ELSE v_value(px[3], px[2], px[1])]

\* round(c) of a positive c given in thousandths, in exact arithmetic
round_thousandths(t) == (t + 500) \div 1000

\* the three rounded values of a pixel are those of the BT.601 expressions to
\* within one unit in the last place of the f32 sums, and lie in the video range
InVideoRange(r, g, b) ==
    /\ y_value(r, g, b) \in 16..235
    /\ u_value(r, g, b) \in 16..240
    /\ v_value(r, g, b) \in 16..240
    /\ y_value(r, g, b) - round_thousandths(257 * r + 504 * g + 98 * b + 16000) \in {0 - 1, 0}
    /\ u_value(r, g, b) - round_thousandths(439 * b - 148 * r - 291 * g + 128000) \in {0 - 1, 0, 1}
    /\ v_value(r, g, b) - round_thousandths(439 * r - 368 * g - 71 * b + 128000) \in {0 - 1, 0, 1}

C20_TieWitness ==
    /\ PlanarCase("BGRA")
    /\ px_called = "write_output_buffer"
    /\ px_resolution = Resolution_new(2, 2)
    /\ px_data = Tiled(<<31, 35, 46, 255>>, 16)
    /\ px_dest[1] = 48

----------------------------------------------------------------------------
(* The packed conversions. *)

\* the call is one of decoder on a fcc source; for write_output_buffer the
\* destination has `channels` bytes for each of the `pixels` source pixels
PackedCase(decoder, fcc, channels, pixels) ==
    /\ px_called # "none"
    /\ px_decoder = decoder
    /\ px_fcc = fcc
    /\ px_called = "write_output_buffer" => Len(px_dest0) = channels * pixels

\* byte c (from 0) of pixel i (from 0) of a buffer of `channels` bytes a pixel
Channel(buf, channels, i, c) == buf[channels * i + c + 1]

\* C21: for a GRAY source, both entry points of RgbFormat give (v, v, v) and
\* both entry points of RgbAFormat give (v, v, v, 255) at output pixel i, v the
\* luma byte of pixel i, the destination of the buffer variant being of the
\* right length.
C21_GrayIsReplicated ==
    /\ PackedCase("RgbFormat", "GRAY", 3, Len(px_data)) =>
          /\ px_out.kind = "Ok"
          /\ Len(Converted) = 3 * Len(px_data)
          /\ \A i \in 0..(Len(px_data) - 1) : \A c \in 0..2 :
                Channel(Converted, 3, i, c) = px_data[i + 1]
    /\ PackedCase("RgbAFormat", "GRAY", 4, Len(px_data)) =>
          /\ px_out.kind = "Ok"
          /\ Len(Converted) = 4 * Len(px_data)
          /\ \A i \in 0..(Len(px_data) - 1) :
                /\ \A c \in 0..2 : Channel(Converted, 4, i, c) = px_data[i + 1]
                /\ Channel(Converted, 4, i, 3) = 255

\* C21's case: RgbAFormat has converted a grayscale ramp into the caller's buffer
C21_Witness ==
    /\ PackedCase("RgbAFormat", "GRAY", 4, Len(px_data))
    /\ px_called = "write_output_buffer"
    /\ Len(px_data) >= 2
    /\ px_data[1] # px_data[2]
    /\ px_out.kind = "Ok"
    /\ px_dest # px_dest0

\* C25: for a BGRA source of 4n bytes and every pixel i < n, write_output gives
\* (src[4i+2], src[4i+1], src[4i]) at pixel i of the RGB output, (src[4i+2],
\* src[4i+1], src[4i], src[4i+3]) at pixel i of the RGBA output, and the
\* truncated quotient (src[4i] + src[4i+1] + src[4i+2]) / 3 at byte i of the
\* Luma output.
C25_BgraIsReordered ==
    (/\ px_called = "write_output"
     /\ px_fcc = "BGRA"
     /\ Len(px_data) % 4 = 0) =>
        \A i \in 0..((Len(px_data) \div 4) - 1) :
            LET b == px_data[4 * i + 1]
                g == px_data[4 * i + 2]
                r == px_data[4 * i + 3]
                a == px_data[4 * i + 4]
            IN  /\ px_decoder = "RgbFormat" =>
                      /\ px_out.kind = "Ok"
                      /\ <<Channel(px_out.buf, 3, i, 0), Channel(px_out.buf, 3, i, 1),
                           Channel(px_out.buf, 3, i, 2)>> = <<r, g, b>>
                /\ px_decoder = "RgbAFormat" =>
                      /\ px_out.kind = "Ok"
                      /\ <<Channel(px_out.buf, 4, i, 0), Channel(px_out.buf, 4, i, 1),
                           Channel(px_out.buf, 4, i, 2), Channel(px_out.buf, 4, i, 3)>>
                             = <<r, g, b, a>>
                /\ px_decoder = "LumaFormat" =>
                      /\ px_out.kind = "Ok"
                      /\ px_out.buf[i + 1] = (b + g + r) \div 3

\* C25's case: RgbFormat has converted two or more BGRA pixels whose channels differ
C25_Witness ==
    /\ px_called = "write_output"
    /\ px_decoder = "RgbFormat"
    /\ px_fcc = "BGRA"
    /\ Len(px_data) >= 8
    /\ Len(px_data) % 4 = 0
    /\ px_data[1] # px_data[3]
    /\ px_out.kind = "Ok"

\* C26: for a RAWRGB source of 3n bytes, write_output gives the source itself
\* for RGB, the source with a byte 255 after every three bytes for RGBA, and
\* for Luma n bytes, byte i the truncated quotient (src[3i] + src[3i+1] +
\* src[3i+2]) / 3 of the full sum.
C26_RawRgbIsCopiedPaddedAveraged ==
    (/\ px_called = "write_output"
     /\ px_fcc = "RAWRGB"
     /\ Len(px_data) % 3 = 0) =>
        LET n == Len(px_data) \div 3
        IN  /\ px_decoder = "RgbFormat" => px_out.kind = "Ok" /\ px_out.buf = px_data
            /\ px_decoder = "RgbAFormat" =>
                  /\ px_out.kind = "Ok"
                  /\ px_out.buf = [k \in 1..(4 * n) |->
                        IF k % 4 = 0 THEN 255 ELSE px_data[3 * ((k - 1) \div 4) + (k % 4)]]
            /\ px_decoder = "LumaFormat" =>
                  /\ px_out.kind = "Ok"
                  /\ px_out.buf = [i \in 1..n |->
                        (px_data[3 * i - 2] + px_data[3 * i - 1] + px_data[3 * i]) \div 3]

\* C26's case: LumaFormat has averaged saturated pixels, whose sum is 765
C26_Witness ==
    /\ px_called = "write_output"
    /\ px_decoder = "LumaFormat"
    /\ px_fcc = "RAWRGB"
    /\ Len(px_data) >= 6
    /\ px_data = Fill(Len(px_data), 255)
    /\ px_out.kind = "Ok"
    /\ px_out.buf = Fill(Len(px_data) \div 3, 255)

\* what write_output_buffer does with the same inputs and a destination as long
\* as the result of write_output
SameInputsInBuffer ==
    write_output_buffer(px_decoder, px_fcc, px_resolution, px_data,
                        Fill(Len(px_out.buf), 170))

\* C27: for RGB, RGBA, Luma and LumaA and a GRAY, RAWRGB or BGRA source on which
\* write_output succeeds, write_output_buffer with the same inputs and a
\* destination as long as write_output's result succeeds too and leaves the
\* destination equal to that result.
C27_BufferVariantAgrees ==
    (/\ px_called = "write_output"
     /\ px_decoder \in {"RgbFormat", "RgbAFormat", "LumaFormat", "LumaAFormat"}
     /\ px_fcc \in {"GRAY", "RAWRGB", "BGRA"}
     /\ px_out.kind = "Ok") =>
        /\ SameInputsInBuffer.kind = "Ok"
        /\ SameInputsInBuffer.buf = px_out.buf

----------------------------------------------------------------------------
(* The order of resolutions. *)

\* a is below b by width first and height second
WidthThenHeightBelow(a, b) ==
    \/ a.width_x < b.width_x
    \/ a.width_x = b.width_x /\ a.height_y < b.height_y

AtMost(a, b) == Resolution_cmp(a, b) \in {"Less", "Equal"}

C23_OrderIsFlipped ==
    (ord_called /\ WidthThenHeightBelow(ord_other, ord_self)) => ord_out = "Less"

----------------------------------------------------------------------------
(* The static lists. *)

InExactlyOne(names) == Cardinality(query_hits \cap names) = 1

\* C24: once a format has been looked up in all seven static lists: a named
\* (non-Custom) variant is in ALL; a member of ALL is in exactly one of
\* COMPRESSED, CHROMA, LUMA and RGB and in exactly one of COLOR_FORMATS and
\* GRAYSCALE; and a format in any list is in ALL.
C24_ListsAgreeWithTheEnumeration ==
    query_lists = DOMAIN StaticLists =>
        /\ query_format.tag # "Custom" => "ALL" \in query_hits
        /\ "ALL" \in query_hits =>
              /\ InExactlyOne({"COMPRESSED", "CHROMA", "LUMA", "RGB"})
              /\ InExactlyOne({"COLOR_FORMATS", "GRAYSCALE"})
        /\ query_hits # {} => "ALL" \in query_hits

----------------------------------------------------------------------------
(* Setting a control. *)

ControlExists == prop_control_id \in DOMAIN prop_controls0

PassesValidation ==
    validate(prop_controls0[prop_control_id].descriptor, prop_value) = "Continue"

\* C28: set_control_value returns the "Not Found/Not Supported" error exactly
\* when the control is absent from the map; for a control that exists, a value
\* that passes validation gives Ok and becomes the stored value, and a value
\* that fails validation gives an error and leaves the controls as they were.
C28_SetControlValueStoresOrRejects ==
    prop_called =>
        /\ prop_out.error = "Not Found/Not Supported" <=> ~ControlExists
        /\ (ControlExists /\ PassesValidation) =>
              /\ prop_out.kind = "Ok"
              /\ prop_controls[prop_control_id].value = Some(prop_value)
        /\ (ControlExists /\ ~PassesValidation) =>
              /\ prop_out.kind = "Err"
              /\ prop_controls = prop_controls0

----------------------------------------------------------------------------
(* The life of a Stream. *)

\* C29: over the life of a Stream the inner stop() is invoked exactly once:
\* not at all while the Stream is alive, and once in total when its life has
\* ended, by a drop or by stop_stream, whatever stop() returned.
C29_StopIsInvokedExactlyOnce ==
    /\ strm_alive => Len(strm_stops) = 0
    /\ ~strm_alive => Len(strm_stops) = 1

----------------------------------------------------------------------------
(* The stepped range. *)

StepsUpward == rng_step > 0 /\ rng_min <= rng_max

\* min, min + step, min + 2 step, ... up to the last term that is not above max
Progression(min, max, step) ==
    [k \in 1..(((max - min) \div step) + 1) |-> min + (k - 1) * step]

\* C30: with step > 0 and min <= max, min_max_range returns, and what it
\* returns is exactly the ascending progression min, min + step, ... of the
\* terms not above max, beginning with min, every element within [min, max].
C30_MinMaxRangeReturnsTheProgression ==
    /\ StepsUpward => <>(rng_pc = "return")
    /\ []((StepsUpward /\ rng_pc = "return") =>
            /\ rng_nums = Progression(rng_min, rng_max, rng_step)
            /\ rng_nums[1] = rng_min
            /\ \A k \in 1..Len(rng_nums) : rng_min <= rng_nums[k] /\ rng_nums[k] <= rng_max)

\* C30's case: a call has returned several terms and max is not one of them
C30_Witness ==
    /\ rng_pc = "return"
    /\ rng_min = -3
    /\ rng_max = 2
    /\ rng_step = 2
    /\ rng_nums = <<-3, -1, 1>>

====
